---------------------------- MODULE Spec2Model ----------------------------
(***************************************************************************)
(* The event stream and pagination store of synapse                        *)
(* (synapse/storage/stream.py) as a state machine: the events table, the   *)
(* stream change caches, the stream id generator, and one action per read  *)
(* operation of StreamStore.  Wire tokens are sequences of one-character    *)
(* strings, formatted and parsed digit by digit.                            *)
(***************************************************************************)
EXTENDS Integers, Sequences, FiniteSets, TLC

(***************************************************************************)
(* Bounds of the model.                                                     *)
(***************************************************************************)
MaxEvents == 2
MaxDepth == 2
MaxLimit == 3
BigLimit == 100

\* MAX_STREAM_SIZE, stream.py line 50
MAX_STREAM_SIZE == 1000

Rooms == {"A", "B"}
UserU == "@u:hs"
Users == {UserU}
Member == "m.room.member"
Message == "m.room.message"
NoStateKey == ""
\* Python's None for a token string: the empty sequence (falsy, like None)
None == <<>>
NoInfo == <<>>

(***************************************************************************)
(* Generic helpers.                                                         *)
(***************************************************************************)
Min2(a, b) == IF a <= b THEN a ELSE b
Max2(a, b) == IF a >= b THEN a ELSE b
SetMax(S) == CHOOSE x \in S : \A y \in S : y <= x
SetMin(S) == CHOOSE x \in S : \A y \in S : x <= y
Reverse(s) == [i \in 1..Len(s) |-> s[Len(s) + 1 - i]]
Take(s, n) == SubSeq(s, 1, Min2(Len(s), Max2(n, 0)))
SeqToSet(s) == {s[i] : i \in 1..Len(s)}
SelectSeqBy(s, T(_)) == SelectSeq(s, T)

(***************************************************************************)
(* "%d" formatting and int() parsing of decimal integers.                   *)
(***************************************************************************)
DigitChars == <<"0", "1", "2", "3", "4", "5", "6", "7", "8", "9">>
IsDigit(c) == \E i \in 1..10 : DigitChars[i] = c
DigitVal(c) == (CHOOSE i \in 1..10 : DigitChars[i] = c) - 1

RECURSIVE NatToStr(_)
NatToStr(n) ==
    IF n < 10 THEN <<DigitChars[n + 1]>>
    ELSE NatToStr(n \div 10) \o <<DigitChars[(n % 10) + 1]>>

IntToStr(n) == IF n < 0 THEN <<"-">> \o NatToStr(0 - n) ELSE NatToStr(n)

RECURSIVE StrToNat(_)
StrToNat(s) ==
    IF Len(s) = 0 THEN 0
    ELSE StrToNat(SubSeq(s, 1, Len(s) - 1)) * 10 + DigitVal(s[Len(s)])

Unsigned(s) == IF Len(s) > 0 /\ s[1] \in {"-", "+"} THEN Tail(s) ELSE s
IsIntStr(s) ==
    /\ Len(Unsigned(s)) > 0
    /\ \A i \in 1..Len(Unsigned(s)) : IsDigit(Unsigned(s)[i])
StrToInt(s) ==
    IF Len(s) > 0 /\ s[1] = "-" THEN 0 - StrToNat(Tail(s)) ELSE StrToNat(Unsigned(s))

(***************************************************************************)
(* RoomStreamToken (synapse.types): a stream token "s%d" or a topological  *)
(* token "t%d-%d".  topological is <<>> for None and <<t>> otherwise.      *)
(***************************************************************************)
RoomStreamToken(topo, stream) == [topological |-> topo, stream |-> stream]
StreamTok(s) == RoomStreamToken(<<>>, s)
TopoTok(t, s) == RoomStreamToken(<<t>>, s)
InvalidToken == [error |-> "InvalidToken"]
IsToken(x) == "stream" \in DOMAIN x

\* str(token)
TokenToStr(tok) ==
    IF tok.topological # <<>>
    THEN <<"t">> \o IntToStr(tok.topological[1]) \o <<"-">> \o IntToStr(tok.stream)
    ELSE <<"s">> \o IntToStr(tok.stream)

\* the position of the first "-" of s, or 0: string.split('-', 1)
FirstDash(s) ==
    IF \E i \in 1..Len(s) : s[i] = "-"
    THEN SetMin({i \in 1..Len(s) : s[i] = "-"})
    ELSE 0

\* RoomStreamToken.parse
ParseToken(str) ==
    IF Len(str) = 0 THEN InvalidToken
    ELSE IF str[1] = "s" THEN
        IF IsIntStr(Tail(str)) THEN StreamTok(StrToInt(Tail(str))) ELSE InvalidToken
    ELSE IF str[1] = "t" THEN
        LET body == Tail(str)
            d == FirstDash(body)
            a == SubSeq(body, 1, d - 1)
            b == SubSeq(body, d + 1, Len(body))
        IN  IF d > 0 /\ IsIntStr(a) /\ IsIntStr(b)
            THEN TopoTok(StrToInt(a), StrToInt(b))
            ELSE InvalidToken
    ELSE InvalidToken

\* RoomStreamToken.parse_stream_token: either form is accepted, the caller
\* takes .stream
ParseStreamToken(str) == ParseToken(str)

(***************************************************************************)
(* lower_bound / upper_bound: the SQL bound expression of a token, as the  *)
(* predicate it is over a row's (topological_ordering, stream_ordering).   *)
(***************************************************************************)
\* the low side admits the event at the token
lower_bound_Inclusive(token, row) ==
    IF token.topological = <<>>
    THEN token.stream <= row.stream_ordering
    ELSE \/ token.topological[1] < row.topological_ordering
         \/ /\ token.topological[1] = row.topological_ordering
            /\ token.stream <= row.stream_ordering

lower_bound(token, row) ==
    IF token.topological = <<>>
    THEN token.stream < row.stream_ordering
    ELSE \/ token.topological[1] < row.topological_ordering
         \/ /\ token.topological[1] = row.topological_ordering
            /\ token.stream < row.stream_ordering

\* the high side is strict too: the event at the token is in neither bound
upper_bound_Strict(token, row) ==
    IF token.topological = <<>>
    THEN token.stream > row.stream_ordering
    ELSE \/ token.topological[1] > row.topological_ordering
         \/ /\ token.topological[1] = row.topological_ordering
            /\ token.stream > row.stream_ordering

upper_bound(token, row) ==
    IF token.topological = <<>>
    THEN token.stream >= row.stream_ordering
    ELSE \/ token.topological[1] > row.topological_ordering
         \/ /\ token.topological[1] = row.topological_ordering
            /\ token.stream >= row.stream_ordering

(***************************************************************************)
(* The events table.                                                        *)
(***************************************************************************)
EventId(s) == <<"$", s>>

Event(room, type, state_key, outlier, stream, topo) ==
    [event_id |-> EventId(stream), room_id |-> room, type |-> type,
     state_key |-> state_key, outlier |-> outlier,
     stream_ordering |-> stream, topological_ordering |-> topo, depth |-> topo]

\* the kinds of event the write path inserts: <<type, state_key, outlier>>
Shapes ==
    { <<Message, NoStateKey, FALSE>>,
      <<Member, UserU, FALSE>>,
      <<Message, NoStateKey, TRUE>> }

\* Room A with e1..e5: stream 1..5, depths 1..5
LinearRoom == { Event("A", Message, NoStateKey, FALSE, i, i) : i \in 1..5 }

\* Two rooms, an out-of-order arrival (depth 1 after depth 2), an outlier,
\* a membership event and a backfilled event
MixedRooms ==
    { Event("A", Message, NoStateKey, FALSE, 1, 2),
      Event("B", Member, UserU, FALSE, 2, 1),
      Event("A", Message, NoStateKey, FALSE, 3, 1),
      Event("A", Message, NoStateKey, TRUE, 4, 2),
      Event("A", Message, NoStateKey, FALSE, 0 - 1, 1) }

\* Room A with a message, the join of @u and another message
JoinedRoom ==
    { Event("A", Message, NoStateKey, FALSE, 1, 1),
      Event("A", Member, UserU, FALSE, 2, 2),
      Event("A", Message, NoStateKey, FALSE, 3, 3) }

InitialTables == { {}, LinearRoom, MixedRooms, JoinedRoom }

VARIABLES
    events,          \* the events table: a set of rows
    stream_cache,    \* _events_stream_cache: room_id -> stream id or NoInfo
    member_cache,    \* _membership_stream_cache: user_id -> stream id or NoInfo
    ret,             \* the last read operation: its arguments and its result
    prev,            \* the read operation before it, when ret continues it
    hs,              \* the HomeServer object and the get_X calls in progress
    gen,             \* _stream_id_gen: the ids handed out and not yet committed
    memo             \* the cache of get_recent_event_ids_for_room: key -> result

vars == <<events, stream_cache, member_cache, ret, prev, hs, gen, memo>>

\* what the operations of the stream store leave alone
rest == <<hs, gen, memo>>

(***************************************************************************)
(* server.py: the HomeServer object.  Four of its DEPENDENCIES: config has  *)
(* no builder, auth, handlers and notifier have one.                        *)
(***************************************************************************)
DEPENDENCIES == {"config", "auth", "handlers", "notifier"}
Builders == {"auth", "handlers", "notifier"}
MaxBuilds == 2

Unset == <<>>
NoError == [kind |-> "none"]
NoCall == [outcome |-> "none"]

\* HomeServer.__init__(hostname, **kwargs): _building = {}, the kwargs are set
\* as attributes; an instance is named by its dependency and the number of
\* the builder call that made it, 0 for one passed to the constructor
HomeServer(kwargs) ==
    [attrs |-> [d \in DEPENDENCIES |-> IF d \in kwargs THEN <<d, 0>> ELSE Unset],
     kwargs |-> kwargs,
     building |-> {},
     stack |-> <<>>,
     calls |-> [d \in DEPENDENCIES |-> 0],
     exc |-> NoError,
     last |-> NoCall]

\* StreamIdGenerator: the counter, the rows of the writers that hold an id
\* and have not committed, the last position handed to a reader and the
\* rows at or below it that were visible then
StreamIdGenerator(current) ==
    [allocated |-> current, pending |-> {}, returned |-> <<>>, seen |-> {}]

\* @cached: nothing is memoized
NoEntries == {}

Idle == [op |-> "idle"]

RoomRows(tbl, room) == {e \in tbl : e.room_id = room}
LatestChange(rows) ==
    IF rows = {} THEN NoInfo ELSE <<SetMax({e.stream_ordering : e \in rows})>>

\* _stream_id_gen.get_current_token()
CurrentToken == SetMax({0} \cup {e.stream_ordering : e \in events})
BackfillToken == SetMin({0} \cup {e.stream_ordering : e \in events})

Init ==
    /\ events \in InitialTables
    /\ stream_cache = [r \in Rooms |-> LatestChange(RoomRows(events, r))]
    /\ member_cache =
         [u \in Users |->
            LatestChange({e \in events : e.type = Member /\ e.state_key = u})]
    /\ ret = Idle
    /\ prev = Idle
    /\ hs = HomeServer({})
    /\ gen = StreamIdGenerator(CurrentToken)
    /\ memo = NoEntries

(***************************************************************************)
(* SQL: ORDER BY ... ASC|DESC LIMIT n over a set of rows.  stream_ordering *)
(* is unique, so both orders are total.                                     *)
(***************************************************************************)
StreamLess(a, b) == a.stream_ordering < b.stream_ordering
CompositeLess(a, b) ==
    \/ a.topological_ordering < b.topological_ordering
    \/ /\ a.topological_ordering = b.topological_ordering
       /\ a.stream_ordering < b.stream_ordering

RECURSIVE OrderByStream(_)
OrderByStream(S) ==
    IF S = {} THEN <<>>
    ELSE LET m == CHOOSE x \in S : \A y \in S \ {x} : StreamLess(x, y)
         IN  <<m>> \o OrderByStream(S \ {m})

RECURSIVE OrderByComposite(_)
OrderByComposite(S) ==
    IF S = {} THEN <<>>
    ELSE LET m == CHOOSE x \in S : \A y \in S \ {x} : CompositeLess(x, y)
         IN  <<m>> \o OrderByComposite(S \ {m})

IsDesc(order) == order \in {"DESC", "desc"}
Directed(seq, order) == IF IsDesc(order) THEN Reverse(seq) ELSE seq

(***************************************************************************)
(* The collaborators of the store.                                          *)
(***************************************************************************)
\* StreamChangeCache.has_entity_changed: changed after stream_pos, or unknown
has_entity_changed(cache, entity, stream_pos) ==
    \/ cache[entity] = NoInfo
    \/ cache[entity][1] > stream_pos

\* StreamChangeCache.get_entities_changed
get_entities_changed(cache, entities, stream_pos) ==
    {k \in entities : has_entity_changed(cache, k, stream_pos)}

\* an event as _get_events hands it out: internal_metadata not yet annotated
Materialize(row) ==
    [event_id |-> row.event_id, room_id |-> row.room_id, type |-> row.type,
     state_key |-> row.state_key, outlier |-> row.outlier,
     stream_ordering |-> row.stream_ordering, depth |-> row.depth,
     topological_ordering |-> row.topological_ordering,
     before |-> None, after |-> None, order |-> <<>>]

\* _get_events / _get_events_txn: the events of event_ids, in that order
GetEvents(event_ids) ==
    [i \in 1..Len(event_ids) |->
        Materialize(CHOOSE e \in events : e.event_id = event_ids[i])]

EventIds(rows) == [i \in 1..Len(rows) |-> rows[i].event_id]

\* _get_app_service_rooms_txn: the rooms the service is interested in
GetAppServiceRooms(service) == service.rooms
\* ApplicationService.is_interested_in_user
IsInterestedInUser(service, user_id) == user_id \in service.users

\* the room_memberships table: one row per membership event
RoomMemberships ==
    { [event_id |-> e.event_id, user_id |-> e.state_key] :
        e \in {x \in events : x.type = Member} }

(***************************************************************************)
(* _set_before_and_after: zip(events, rows)                                 *)
(***************************************************************************)
\* the cursor before an event is the one after it
BeforeToken_SameAsAfter(topo, stream) == TokenToStr(RoomStreamToken(topo, stream))

\* internal.before = str(RoomStreamToken(topo, stream - 1))
BeforeToken(topo, stream) == TokenToStr(RoomStreamToken(topo, stream - 1))
\* internal.after = str(RoomStreamToken(topo, stream))
AfterToken(topo, stream) == TokenToStr(RoomStreamToken(topo, stream))

SetBeforeAndAfter(evs, rows, topo_order) ==
    [i \in 1..Len(evs) |->
        IF i > Len(rows) THEN evs[i]
        ELSE LET stream == rows[i].stream_ordering
                 topo == IF topo_order THEN <<evs[i].depth>> ELSE <<>>
             IN  [evs[i] EXCEPT
                    !.before = BeforeToken(topo, stream),
                    !.after = AfterToken(topo, stream),
                    !.order = <<IF topo # <<>> /\ topo[1] # 0 THEN topo[1] ELSE 0,
                                stream>>]]

(***************************************************************************)
(* get_room_events_stream_for_room                                          *)
(***************************************************************************)
Result(evs, key, interactions, lookups) ==
    [status |-> "ok", events |-> evs, key |-> key,
     interactions |-> interactions, lookups |-> lookups]
Failure(err) ==
    [status |-> err, events |-> <<>>, key |-> None,
     interactions |-> <<>>, lookups |-> 0]

\* without a from_key the rows are ordered by stream_ordering alone too
StreamForRoomTxn_StreamOrderOnly(room_id, from_id, to_id, limit, order) ==
    Take(Directed(OrderByStream(
            {e \in events : /\ e.room_id = room_id
                            /\ ~e.outlier
                            /\ from_id # <<>> => e.stream_ordering > from_id[1]
                            /\ e.stream_ordering <= to_id}), order), limit)

\* the interaction f(txn) of get_room_events_stream_for_room
StreamForRoomTxn(room_id, from_id, to_id, limit, order) ==
    IF from_id # <<>>
    THEN Take(Directed(OrderByStream(
                {e \in events : /\ e.room_id = room_id
                                /\ ~e.outlier
                                /\ e.stream_ordering > from_id[1]
                                /\ e.stream_ordering <= to_id}), order), limit)
    ELSE Take(Directed(OrderByComposite(
                {e \in events : /\ e.room_id = room_id
                                /\ ~e.outlier
                                /\ e.stream_ordering <= to_id}), order), limit)

\* the early return is missing
SameKeys_Never(from_key, to_key) == FALSE

\* "if from_key == to_key": nothing to read
SameKeys(from_key, to_key) == from_key = to_key

\* the list is left in the order of the query
ForwardOrder_NoReverse(got, order) == got

\* "if order.lower() == 'desc': ret.reverse()"
ForwardOrder(got, order) == IF IsDesc(order) THEN Reverse(got) ELSE got

\* the key is the latest row's, not the earliest's
StreamKeyOf_Max(rows, from_key) ==
    IF Len(rows) > 0
    THEN <<"s">> \o IntToStr(SetMax({rows[i].stream_ordering : i \in 1..Len(rows)}))
    ELSE from_key

\* key = "s%d" % min(r["stream_ordering"] for r in rows), or from_key
StreamKeyOf(rows, from_key) ==
    IF Len(rows) > 0
    THEN <<"s">> \o IntToStr(SetMin({rows[i].stream_ordering : i \in 1..Len(rows)}))
    ELSE from_key

\* the cache is asked about the upper end of the window
Unchanged_SinceToId(room_id, from_id, to_id) ==
    /\ from_id # <<>>
    /\ from_id[1] # 0
    /\ ~has_entity_changed(stream_cache, room_id, to_id)

\* if from_id: has_changed = has_entity_changed(room_id, from_id); not has_changed
Unchanged(room_id, from_id, to_id) ==
    /\ from_id # <<>>
    /\ from_id[1] # 0
    /\ ~has_entity_changed(stream_cache, room_id, from_id[1])

get_room_events_stream_for_room(room_id, from_key, to_key, limit, order) ==
    LET from_tok == IF from_key # None THEN ParseStreamToken(from_key) ELSE None
        to_tok == ParseStreamToken(to_key)
    IN  IF (from_key # None /\ ~IsToken(from_tok)) \/ ~IsToken(to_tok)
        THEN Failure("InvalidToken")
        ELSE
        LET from_id == IF from_key # None THEN <<from_tok.stream>> ELSE <<>>
            to_id == to_tok.stream
            consulted == from_id # <<>> /\ from_id[1] # 0
        IN  IF SameKeys(from_key, to_key) THEN Result(<<>>, from_key, <<>>, 0)
            ELSE IF Unchanged(room_id, from_id, to_id)
            THEN Result(<<>>, from_key, <<>>, 1)
            ELSE
            LET rows == StreamForRoomTxn(room_id, from_id, to_id, limit, order)
                got == SetBeforeAndAfter(GetEvents(EventIds(rows)), rows,
                                         from_id = <<>>)
            IN  Result(ForwardOrder(got, order),
                       StreamKeyOf(rows, from_key),
                       <<"get_room_events_stream_for_room">>,
                       IF consulted THEN 1 ELSE 0)

(***************************************************************************)
(* get_room_events_stream_for_rooms: the rooms the cache reports changed,  *)
(* each read by get_room_events_stream_for_room; every such room is a key   *)
(* of the result.                                                           *)
(***************************************************************************)
RECURSIVE Interactions(_, _)
Interactions(results, rooms) ==
    IF rooms = {} THEN <<>>
    ELSE LET r == CHOOSE x \in rooms : TRUE
         IN  results[r].interactions \o Interactions(results, rooms \ {r})

RECURSIVE Lookups(_, _)
Lookups(results, rooms) ==
    IF rooms = {} THEN 0
    ELSE LET r == CHOOSE x \in rooms : TRUE
         IN  results[r].lookups + Lookups(results, rooms \ {r})

\* every room is read, whatever the cache says
RoomsToQuery_NoPruning(room_ids, from_id) == room_ids

\* rooms that returned nothing are left out of the map
ResultMap_NonEmptyOnly(rooms, results) ==
    [r \in {x \in rooms : results[x].events # <<>>} |->
        [events |-> results[r].events, key |-> results[r].key]]

\* results.update(dict(zip(rm_ids, res)))
ResultMap(rooms, results) ==
    [r \in rooms |-> [events |-> results[r].events, key |-> results[r].key]]

\* the rooms that survive the change cache
RoomsToQuery(room_ids, from_id) ==
    get_entities_changed(stream_cache, room_ids, from_id)

get_room_events_stream_for_rooms(room_ids, from_key, to_key, limit, order) ==
    LET from_tok == ParseStreamToken(from_key)
    IN  IF ~IsToken(from_tok) \/ ~IsToken(ParseStreamToken(to_key))
        THEN [status |-> "InvalidToken", results |-> <<>>, queried |-> {},
              interactions |-> <<>>, lookups |-> 0]
        ELSE
        LET changed == RoomsToQuery(room_ids, from_tok.stream)
            results == [r \in changed |->
                          get_room_events_stream_for_room(r, from_key, to_key,
                                                          limit, order)]
        IN  [status |-> "ok",
             results |-> ResultMap(changed, results),
             queried |-> {r \in changed : results[r].interactions # <<>>},
             interactions |-> Interactions(results, changed),
             lookups |-> 1 + Lookups(results, changed)]

(***************************************************************************)
(* get_membership_changes_for_user                                          *)
(***************************************************************************)
MembershipRows(user_id) ==
    {e \in events : [event_id |-> e.event_id, user_id |-> user_id] \in RoomMemberships}

get_membership_changes_for_user(user_id, from_key, to_key) ==
    LET from_tok == IF from_key # None THEN ParseStreamToken(from_key) ELSE None
        to_tok == ParseStreamToken(to_key)
    IN  IF (from_key # None /\ ~IsToken(from_tok)) \/ ~IsToken(to_tok)
        THEN Failure("InvalidToken")
        ELSE
        LET from_id == IF from_key # None THEN <<from_tok.stream>> ELSE <<>>
            to_id == to_tok.stream
            consulted == from_id # <<>> /\ from_id[1] # 0
        IN  IF SameKeys(from_key, to_key) THEN Result(<<>>, None, <<>>, 0)
            ELSE IF consulted /\ ~has_entity_changed(member_cache, user_id, from_id[1])
            THEN Result(<<>>, None, <<>>, 1)
            ELSE
            LET rows == OrderByStream(
                    {e \in MembershipRows(user_id) :
                        /\ from_id # <<>> => e.stream_ordering > from_id[1]
                        /\ e.stream_ordering <= to_id})
            IN  Result(SetBeforeAndAfter(GetEvents(EventIds(rows)), rows, FALSE),
                       None, <<"get_membership_changes_for_user">>,
                       IF consulted THEN 1 ELSE 0)

(***************************************************************************)
(* paginate_room_events                                                     *)
(***************************************************************************)
PaginateBounds(row, from_tok, to_key, direction) ==
    IF direction = "b"
    THEN /\ upper_bound(from_tok, row)
         /\ to_key # None => lower_bound(ParseToken(to_key), row)
    ELSE /\ lower_bound(from_tok, row)
         /\ to_key # None => upper_bound(ParseToken(to_key), row)

\* the stream part is not decremented when going backwards
PaginateNextToken_NoDecrement(rows, from_key, to_key, direction) ==
    IF Len(rows) > 0
    THEN TokenToStr(RoomStreamToken(<<rows[Len(rows)].topological_ordering>>,
                                    rows[Len(rows)].stream_ordering))
    ELSE IF to_key # None THEN to_key ELSE from_key

\* the token is taken from the first row of the chunk
PaginateNextToken_FirstRow(rows, from_key, to_key, direction) ==
    IF Len(rows) > 0
    THEN LET topo == rows[1].topological_ordering
             toke == rows[1].stream_ordering
         IN  TokenToStr(RoomStreamToken(<<topo>>,
                                        IF direction = "b" THEN toke - 1 ELSE toke))
    ELSE IF to_key # None THEN to_key ELSE from_key

\* the token after the last row of the chunk, the stream part decremented
\* when going backwards
PaginateNextToken(rows, from_key, to_key, direction) ==
    IF Len(rows) > 0
    THEN LET topo == rows[Len(rows)].topological_ordering
             toke == rows[Len(rows)].stream_ordering
         IN  TokenToStr(RoomStreamToken(<<topo>>,
                                        IF direction = "b" THEN toke - 1 ELSE toke))
    ELSE IF to_key # None THEN to_key ELSE from_key

paginate_room_events(room_id, from_key, to_key, direction, limit) ==
    LET from_tok == ParseToken(from_key)
    IN  IF ~IsToken(from_tok) \/ (to_key # None /\ ~IsToken(ParseToken(to_key)))
        THEN Failure("InvalidToken")
        ELSE
        LET order == IF direction = "b" THEN "DESC" ELSE "ASC"
            sorted == Directed(OrderByComposite(
                        {e \in events : /\ e.outlier = FALSE
                                        /\ e.room_id = room_id
                                        /\ PaginateBounds(e, from_tok, to_key,
                                                          direction)}), order)
            rows == IF limit > 0 THEN Take(sorted, limit) ELSE sorted
        IN  Result(SetBeforeAndAfter(GetEvents(EventIds(rows)), rows, TRUE),
                   PaginateNextToken(rows, from_key, to_key, direction),
                   <<"paginate_room_events">>, 0)

(***************************************************************************)
(* get_recent_events_for_room / get_recent_event_ids_for_room               *)
(***************************************************************************)
\* the start token is the position of the first row itself
RecentStartToken_NoDecrement(rows) ==
    TokenToStr(RoomStreamToken(<<rows[1].topological_ordering>>,
                               rows[1].stream_ordering))

\* topo = rows[0]["topological_ordering"]; toke = rows[0]["stream_ordering"] - 1
RecentStartToken(rows) ==
    TokenToStr(RoomStreamToken(<<rows[1].topological_ordering>>,
                               rows[1].stream_ordering - 1))

get_recent_event_ids_for_room(room_id, limit, end_key, from_key) ==
    LET end_token == ParseStreamToken(end_key)
        from_token == ParseStreamToken(from_key)
        rows == Reverse(Take(Reverse(OrderByComposite(
                    {e \in events :
                        /\ e.room_id = room_id
                        /\ from_key # None => e.stream_ordering > from_token.stream
                        /\ e.stream_ordering <= end_token.stream
                        /\ e.outlier = FALSE})), limit))
    IN  [rows |-> rows,
         token |->
            IF Len(rows) > 0
            THEN <<RecentStartToken(rows), TokenToStr(end_token)>>
            ELSE <<TokenToStr(end_token), TokenToStr(end_token)>>]

get_recent_events_for_room(room_id, limit, end_key, from_key) ==
    IF \/ ~IsToken(ParseStreamToken(end_key))
       \/ from_key # None /\ ~IsToken(ParseStreamToken(from_key))
    THEN Failure("InvalidToken")
    ELSE LET ids == get_recent_event_ids_for_room(room_id, limit, end_key, from_key)
         IN  Result(SetBeforeAndAfter(GetEvents(EventIds(ids.rows)), ids.rows, TRUE),
                    ids.token, <<"get_recent_events_for_room">>, 0)

(***************************************************************************)
(* get_events_around / _get_events_around_txn                               *)
(***************************************************************************)
\* the "before" query takes the earliest rows of the room
QueryBefore_Ascending(room_id, topological_ordering, stream_ordering, before_limit) ==
    Take(OrderByComposite(
        {e \in events :
            /\ e.room_id = room_id
            /\ \/ e.topological_ordering < topological_ordering
               \/ /\ e.topological_ordering = topological_ordering
                  /\ e.stream_ordering < stream_ordering}), before_limit)

\* query_before: ORDER BY topological_ordering DESC, stream_ordering DESC LIMIT ?
QueryBefore(room_id, topological_ordering, stream_ordering, before_limit) ==
    Take(Reverse(OrderByComposite(
        {e \in events :
            /\ e.room_id = room_id
            /\ \/ e.topological_ordering < topological_ordering
               \/ /\ e.topological_ordering = topological_ordering
                  /\ e.stream_ordering < stream_ordering})), before_limit)

\* query_after: ORDER BY topological_ordering ASC, stream_ordering ASC LIMIT ?
QueryAfter(room_id, topological_ordering, stream_ordering, after_limit) ==
    Take(OrderByComposite(
        {e \in events :
            /\ e.room_id = room_id
            /\ \/ e.topological_ordering > topological_ordering
               \/ /\ e.topological_ordering = topological_ordering
                  /\ e.stream_ordering > stream_ordering}), after_limit)

get_events_around_txn(room_id, event_id, before_limit, after_limit) ==
    LET pin == CHOOSE e \in events : e.event_id = event_id /\ e.room_id = room_id
        stream_ordering == pin.stream_ordering
        topological_ordering == pin.topological_ordering
        rows_before == QueryBefore(room_id, topological_ordering, stream_ordering,
                                   before_limit)
        rows_after == QueryAfter(room_id, topological_ordering, stream_ordering,
                                 after_limit)
    IN  [before |->
            [event_ids |-> EventIds(rows_before),
             token |->
                IF Len(rows_before) > 0
                THEN TokenToStr(RoomStreamToken(
                        <<rows_before[1].topological_ordering>>,
                        rows_before[1].stream_ordering - 1))
                ELSE TokenToStr(RoomStreamToken(<<topological_ordering>>,
                                                stream_ordering - 1))],
         after |->
            [event_ids |-> EventIds(rows_after),
             token |->
                IF Len(rows_after) > 0
                THEN TokenToStr(RoomStreamToken(
                        <<rows_after[Len(rows_after)].topological_ordering>>,
                        rows_after[Len(rows_after)].stream_ordering))
                ELSE TokenToStr(RoomStreamToken(<<topological_ordering>>,
                                                stream_ordering))]]

get_events_around(room_id, event_id, before_limit, after_limit) ==
    IF ~\E e \in events : e.event_id = event_id /\ e.room_id = room_id
    THEN [status |-> "EventNotFound", events_before |-> <<>>, events_after |-> <<>>,
          start |-> None, end |-> None, interactions |-> <<"get_events_around">>]
    ELSE LET results == get_events_around_txn(room_id, event_id, before_limit,
                                              after_limit)
         IN  [status |-> "ok",
              events_before |-> GetEvents(results.before.event_ids),
              events_after |-> GetEvents(results.after.event_ids),
              start |-> results.before.token,
              end |-> results.after.token,
              interactions |-> <<"get_events_around">>]

(***************************************************************************)
(* get_appservice_room_stream                                               *)
(***************************************************************************)
AppServiceLimit(limit) ==
    IF limit # 0 THEN Max2(limit, MAX_STREAM_SIZE) ELSE MAX_STREAM_SIZE

app_service_interested(service, row) ==
    \/ row.room_id \in GetAppServiceRooms(service)
    \/ /\ row.type = Member
       /\ IsInterestedInUser(service, row.state_key)

Interesting(service, rows) ==
    LET keep(r) == app_service_interested(service, r) IN SelectSeq(rows, keep)

\* the key is taken over the events the service is interested in
AppServiceKeyOf_Interesting(service, rows, to_key) ==
    IF Len(Interesting(service, rows)) > 0
    THEN <<"s">> \o IntToStr(
            SetMax({Interesting(service, rows)[i].stream_ordering :
                        i \in 1..Len(Interesting(service, rows))}))
    ELSE to_key

\* key = "s%d" % max(r["stream_ordering"] for r in rows), or to_key
AppServiceKeyOf(service, rows, to_key) ==
    IF Len(rows) > 0
    THEN <<"s">> \o IntToStr(SetMax({rows[i].stream_ordering : i \in 1..Len(rows)}))
    ELSE to_key

\* the window takes in the row at from_id
AppServiceRows_FromInclusive(from_id, to_id, limit) ==
    Take(OrderByStream({e \in events : /\ e.stream_ordering >= from_id.stream
                                       /\ e.stream_ordering <= to_id.stream}),
         AppServiceLimit(limit))

\* WHERE e.stream_ordering > ? AND e.stream_ordering <= ?
\* ORDER BY stream_ordering ASC LIMIT %(limit)d
AppServiceRows(from_id, to_id, limit) ==
    Take(OrderByStream({e \in events : /\ e.stream_ordering > from_id.stream
                                       /\ e.stream_ordering <= to_id.stream}),
         AppServiceLimit(limit))

get_appservice_room_stream(service, from_key, to_key, limit) ==
    LET from_id == ParseStreamToken(from_key)
        to_id == ParseStreamToken(to_key)
    IN  IF ~IsToken(from_id) \/ ~IsToken(to_id) THEN Failure("InvalidToken")
        ELSE IF SameKeys(from_key, to_key) THEN Result(<<>>, to_key, <<>>, 0)
        ELSE
        LET rows == AppServiceRows(from_id, to_id, limit)
            got == GetEvents(EventIds(Interesting(service, rows)))
        IN  Result(SetBeforeAndAfter(got, rows, TRUE),
                   AppServiceKeyOf(service, rows, to_key),
                   <<"get_appservice_room_stream">>, 0)

(***************************************************************************)
(* The write path: an insert takes the next stream id (a backfill the next *)
(* one below) and reports the change to the caches.                         *)
(***************************************************************************)
\* A position beyond everything stored is the entity's largest change. A
\* position below that (a backfill) is recorded against what the cache knows of
\* the entity, and tells nothing of an entity the cache knows nothing about.
Changed(cache, key, stream) ==
    [cache EXCEPT ![key] =
        IF @ = NoInfo
        THEN IF stream > CurrentToken THEN <<stream>> ELSE NoInfo
        ELSE <<Max2(@[1], stream)>>]

Persist(ev) ==
    /\ Cardinality(events) < MaxEvents
    /\ events' = events \cup {ev}
    /\ stream_cache' = Changed(stream_cache, ev.room_id, ev.stream_ordering)
    /\ member_cache' =
         IF ev.type = Member
         THEN Changed(member_cache, ev.state_key, ev.stream_ordering)
         ELSE member_cache
    /\ ret' = Idle
    /\ prev' = Idle

\* a writer takes the next id and commits its row in one step
InsertEvent ==
    /\ ret = Idle
    /\ \E room \in Rooms, depth \in 1..MaxDepth, shape \in Shapes :
        Persist(Event(room, shape[1], shape[2], shape[3], CurrentToken + 1, depth))
    /\ UNCHANGED rest

BackfillEvent ==
    /\ ret = Idle
    /\ \E room \in Rooms, depth \in 1..MaxDepth, shape \in Shapes :
        /\ BackfillToken = 0
        /\ Persist(Event(room, shape[1], shape[2], shape[3], BackfillToken - 1, depth))
    /\ UNCHANGED rest

\* the cache drops what it knows of an entity
EvictRoom ==
    /\ ret = Idle
    /\ \E room \in Rooms :
        /\ stream_cache[room] # NoInfo
        /\ stream_cache' = [stream_cache EXCEPT ![room] = NoInfo]
        /\ ret' = Idle
        /\ prev' = Idle
        /\ UNCHANGED <<events, member_cache, rest>>

(***************************************************************************)
(* The callers: the arguments a client or handler passes.  Tokens are the  *)
(* ones the store hands out for the table's events.                         *)
(***************************************************************************)
\* get_stream_token_for_event
get_stream_token_for_event(e) == <<"s">> \o IntToStr(e.stream_ordering)
\* get_topological_token_for_event
get_topological_token_for_event(e) ==
    <<"t">> \o IntToStr(e.topological_ordering) \o <<"-">> \o IntToStr(e.stream_ordering)

StreamKeys == {TokenToStr(StreamTok(0))} \cup {get_stream_token_for_event(e) : e \in events}
TopoKeys == {get_topological_token_for_event(e) : e \in events}
\* the limits that make a difference on a table of this size
Limits ==
    {l \in 0..MaxLimit : l <= Cardinality(events)}
        \cup {l \in {BigLimit} : Cardinality(events) > MaxLimit}
Orders == {"ASC", "DESC"}
Directions == {"b", "f"}
Services == { [rooms |-> {}, users |-> {UserU}], [rooms |-> {"A"}, users |-> {}] }

Reads(r) ==
    /\ ret' = r
    /\ prev' = Idle
    /\ UNCHANGED <<events, stream_cache, member_cache, rest>>

StreamForRoom ==
    /\ ret = Idle
    /\ \E room_id \in Rooms, from_key \in {None} \cup StreamKeys, to_key \in StreamKeys,
       limit \in Limits, order \in Orders :
        Reads([op |-> "get_room_events_stream_for_room", room_id |-> room_id,
               from_key |-> from_key, to_key |-> to_key, limit |-> limit,
               order |-> order,
               res |-> get_room_events_stream_for_room(room_id, from_key, to_key,
                                                       limit, order)])

StreamForRooms ==
    /\ ret = Idle
    /\ \E room_ids \in SUBSET Rooms, from_key \in StreamKeys, to_key \in StreamKeys,
       limit \in {BigLimit}, order \in Orders :
        Reads([op |-> "get_room_events_stream_for_rooms", room_ids |-> room_ids,
               from_key |-> from_key, to_key |-> to_key, limit |-> limit,
               order |-> order,
               res |-> get_room_events_stream_for_rooms(room_ids, from_key, to_key,
                                                        limit, order)])

MembershipChanges ==
    /\ ret = Idle
    /\ \E user_id \in Users, from_key \in {None} \cup StreamKeys, to_key \in StreamKeys :
        Reads([op |-> "get_membership_changes_for_user", user_id |-> user_id,
               from_key |-> from_key, to_key |-> to_key,
               res |-> get_membership_changes_for_user(user_id, from_key, to_key)])

Paginate ==
    /\ ret = Idle
    /\ \E room_id \in Rooms, from_key \in StreamKeys \cup TopoKeys,
       to_key \in {None} \cup TopoKeys, direction \in Directions, limit \in Limits :
        Reads([op |-> "paginate_room_events", room_id |-> room_id,
               from_key |-> from_key, to_key |-> to_key, direction |-> direction,
               limit |-> limit,
               res |-> paginate_room_events(room_id, from_key, to_key, direction,
                                            limit)])

RecentEvents ==
    /\ ret = Idle
    /\ \E room_id \in Rooms, limit \in Limits, end_key \in StreamKeys,
       from_key \in {None} \cup StreamKeys :
        Reads([op |-> "get_recent_events_for_room", room_id |-> room_id,
               limit |-> limit, end_key |-> end_key, from_key |-> from_key,
               res |-> get_recent_events_for_room(room_id, limit, end_key, from_key)])

EventsAround ==
    /\ ret = Idle
    /\ \E room_id \in Rooms, e \in events,
       before_limit \in Limits \ {BigLimit}, after_limit \in Limits \ {BigLimit} :
        Reads([op |-> "get_events_around", room_id |-> room_id,
               event_id |-> e.event_id, before_limit |-> before_limit,
               after_limit |-> after_limit,
               res |-> get_events_around(room_id, e.event_id, before_limit,
                                         after_limit)])

AppServiceStream ==
    /\ ret = Idle
    /\ \E service \in Services, from_key \in StreamKeys, to_key \in StreamKeys,
       limit \in {0, 1} :
        Reads([op |-> "get_appservice_room_stream", service |-> service,
               from_key |-> from_key, to_key |-> to_key, limit |-> limit,
               res |-> get_appservice_room_stream(service, from_key, to_key, limit)])

\* the client goes on paginating from the token the last call returned
PaginateNext ==
    /\ ret.op = "paginate_room_events"
    /\ prev = Idle
    /\ ret.to_key = None
    /\ ret.res.status = "ok"
    /\ \E limit \in Limits :
        /\ ret' = [op |-> "paginate_room_events", room_id |-> ret.room_id,
                   from_key |-> ret.res.key, to_key |-> None,
                   direction |-> ret.direction, limit |-> limit,
                   res |-> paginate_room_events(ret.room_id, ret.res.key, None,
                                                ret.direction, limit)]
        /\ prev' = ret
        /\ UNCHANGED <<events, stream_cache, member_cache, rest>>

\* the client pages backwards from the start token of the recent events
PaginateFromRecent ==
    /\ ret.op = "get_recent_events_for_room"
    /\ ret.res.status = "ok"
    /\ \E limit \in Limits :
        /\ ret' = [op |-> "paginate_room_events", room_id |-> ret.room_id,
                   from_key |-> ret.res.key[1], to_key |-> None,
                   direction |-> "b", limit |-> limit,
                   res |-> paginate_room_events(ret.room_id, ret.res.key[1], None,
                                                "b", limit)]
        /\ prev' = ret
        /\ UNCHANGED <<events, stream_cache, member_cache, rest>>

\* the client pages backwards from the start token of the context
PaginateFromAround ==
    /\ ret.op = "get_events_around"
    /\ ret.res.status = "ok"
    /\ \E limit \in Limits :
        /\ ret' = [op |-> "paginate_room_events", room_id |-> ret.room_id,
                   from_key |-> ret.res.start, to_key |-> None,
                   direction |-> "b", limit |-> limit,
                   res |-> paginate_room_events(ret.room_id, ret.res.start, None,
                                                "b", limit)]
        /\ prev' = ret
        /\ UNCHANGED <<events, stream_cache, member_cache, rest>>

\* the caller has consumed the result
Return ==
    /\ ret # Idle
    /\ ret' = Idle
    /\ prev' = Idle
    /\ UNCHANGED <<events, stream_cache, member_cache, rest>>

Next ==
    \/ InsertEvent
    \/ BackfillEvent
    \/ EvictRoom
    \/ StreamForRoom
    \/ StreamForRooms
    \/ MembershipChanges
    \/ Paginate
    \/ PaginateNext
    \/ PaginateFromRecent
    \/ PaginateFromAround
    \/ RecentEvents
    \/ EventsAround
    \/ AppServiceStream
    \/ Return

Spec == Init /\ [][Next]_vars

(***************************************************************************)
(* What the claims speak of.                                                *)
(***************************************************************************)
\* the events a read of room_id may return
Eligible(room_id) == {e \in events : e.room_id = room_id /\ ~e.outlier}
RowOf(ev) == CHOOSE e \in events : e.event_id = ev.event_id
IdsOf(evs) == {evs[i].event_id : i \in 1..Len(evs)}
IdSeq(evs) == [i \in 1..Len(evs) |-> evs[i].event_id]
AscendingComposite(evs) ==
    \A i \in 1..Len(evs) - 1 : CompositeLess(evs[i], evs[i + 1])
DescendingComposite(evs) ==
    \A i \in 1..Len(evs) - 1 : CompositeLess(evs[i + 1], evs[i])
AscendingStream(evs) ==
    \A i \in 1..Len(evs) - 1 : StreamLess(evs[i], evs[i + 1])
IsOk(r) == r.res.status = "ok"
IsPaginate(r) == r.op = "paginate_room_events" /\ IsOk(r)
IsStreamForRoom(r) == r.op = "get_room_events_stream_for_room" /\ IsOk(r)
IsStreamForRooms(r) == r.op = "get_room_events_stream_for_rooms" /\ IsOk(r)
IsRecent(r) == r.op = "get_recent_events_for_room" /\ IsOk(r)
IsAround(r) == r.op = "get_events_around" /\ IsOk(r)
IsAppService(r) == r.op = "get_appservice_room_stream" /\ IsOk(r)
IsMembership(r) == r.op = "get_membership_changes_for_user" /\ IsOk(r)

\* a backward pagination continued from the token it returned
BackwardChain ==
    /\ prev # Idle
    /\ IsPaginate(prev)
    /\ IsPaginate(ret)
    /\ prev.direction = "b"

(***************************************************************************)
(* C1: when paginate_room_events(R, tok, 'b', n) returns (events, next),   *)
(* paginate_room_events(R, next, 'b', m) returns events disjoint from the  *)
(* first chunk, all of them below it in composite order, and no non-outlier *)
(* event of R between the two chunks is skipped: every such event below    *)
(* the first chunk and not below the second chunk is in the second chunk.  *)
(***************************************************************************)
C1_BackwardChunksDisjointContiguous ==
    BackwardChain =>
        LET first == prev.res.events
            second == ret.res.events
        IN  /\ IdsOf(first) \cap IdsOf(second) = {}
            /\ first = <<>> => second = <<>>
            /\ first # <<>> =>
                 /\ \A i \in 1..Len(second) : CompositeLess(second[i], first[Len(first)])
                 /\ \A e \in Eligible(ret.room_id) :
                        ( /\ CompositeLess(e, first[Len(first)])
                          /\ \/ Len(second) < ret.limit
                             \/ ret.limit <= 0
                             \/ second = <<>>
                             \/ ~CompositeLess(e, second[Len(second)]) )
                        => e.event_id \in IdsOf(second)

\* both chunks hold events, and the second call was limited
C1_Witness ==
    /\ BackwardChain
    /\ prev.limit >= 1
    /\ ret.limit >= 1
    /\ Len(prev.res.events) >= 1
    /\ Len(ret.res.events) >= 1
    /\ \E e \in Eligible(ret.room_id) :
            CompositeLess(e, ret.res.events[Len(ret.res.events)])

(***************************************************************************)
(* C2 as stated: every batch a read operation returns is in ascending      *)
(* composite (topological_ordering, stream_ordering) order.                 *)
(***************************************************************************)
C2_AllBatchesAscendingComposite ==
    /\ IsStreamForRoom(ret) => AscendingComposite(ret.res.events)
    /\ IsPaginate(ret) => AscendingComposite(ret.res.events)
    /\ IsRecent(ret) => AscendingComposite(ret.res.events)
    /\ IsAround(ret) => /\ AscendingComposite(ret.res.events_before)
                        /\ AscendingComposite(ret.res.events_after)

(***************************************************************************)
(* C2 amended: get_room_events_stream_for_room (ASC or DESC) returns its   *)
(* events ascending in composite order when from_token is absent and        *)
(* ascending in stream_ordering when it is present; paginate 'f',           *)
(* get_recent_events_for_room and events_after are ascending in composite   *)
(* order; paginate 'b' and events_before are descending in composite order. *)
(***************************************************************************)
C2_BatchOrderPerOperation ==
    /\ IsStreamForRoom(ret) =>
         IF ret.from_key = None
         THEN AscendingComposite(ret.res.events)
         ELSE AscendingStream(ret.res.events)
    /\ IsPaginate(ret) =>
         IF ret.direction = "f"
         THEN AscendingComposite(ret.res.events)
         ELSE DescendingComposite(ret.res.events)
    /\ IsRecent(ret) => AscendingComposite(ret.res.events)
    /\ IsAround(ret) => /\ DescendingComposite(ret.res.events_before)
                        /\ AscendingComposite(ret.res.events_after)

\* a DESC stream read whose stream order is not the composite order
C2_Witness ==
    /\ IsStreamForRoom(ret)
    /\ ret.order = "DESC"
    /\ ret.from_key # None
    /\ Len(ret.res.events) >= 2
    /\ ~AscendingComposite(ret.res.events)

(***************************************************************************)
(* C3 as stated: every read of a room with from_token == to_token returns  *)
(* ([], from_token) without a DB interaction and without a cache lookup.   *)
(***************************************************************************)
C3_EqualTokensTouchNothing ==
    /\ (IsStreamForRoom(ret) \/ IsPaginate(ret)) /\ ret.from_key = ret.to_key =>
         /\ ret.res.events = <<>>
         /\ ret.res.key = ret.from_key
         /\ ret.res.interactions = <<>>
         /\ ret.res.lookups = 0

(***************************************************************************)
(* C3 amended: get_room_events_stream_for_room with from_token == to_token *)
(* returns ([], from_token) with no DB interaction and no cache lookup;     *)
(* paginate_room_events with from_token == to_token also returns            *)
(* ([], from_token) and looks nothing up in a cache, but it issues one DB   *)
(* interaction.                                                             *)
(***************************************************************************)
C3_EqualTokensReturnNothing ==
    /\ IsStreamForRoom(ret) /\ ret.from_key = ret.to_key =>
         /\ ret.res.events = <<>>
         /\ ret.res.key = ret.from_key
         /\ ret.res.interactions = <<>>
         /\ ret.res.lookups = 0
    /\ IsPaginate(ret) /\ ret.from_key = ret.to_key =>
         /\ ret.res.events = <<>>
         /\ ret.res.key = ret.from_key
         /\ ret.res.interactions = <<"paginate_room_events">>
         /\ ret.res.lookups = 0

\* equal tokens in a room that holds events the cache reports as changed
C3_Witness ==
    /\ IsStreamForRoom(ret)
    /\ ret.from_key = ret.to_key
    /\ \E e \in Eligible(ret.room_id) :
            e.stream_ordering > ParseToken(ret.from_key).stream

(***************************************************************************)
(* What the room change cache reports.                                      *)
(***************************************************************************)
CacheReports(room_id, since) ==
    \/ stream_cache[room_id] = NoInfo
    \/ stream_cache[room_id][1] > since
ReportedChanged(r) ==
    {room \in r.room_ids : CacheReports(room, ParseToken(r.from_key).stream)}
WindowEmpty(room_id, from_key, to_key) ==
    ~\E e \in Eligible(room_id) :
        /\ ParseToken(from_key).stream < e.stream_ordering
        /\ e.stream_ordering <= ParseToken(to_key).stream

(***************************************************************************)
(* C4: get_room_events_stream_for_rooms issues a DB interaction only for   *)
(* rooms the change cache reports as changed or unknown since               *)
(* from_token.stream; the keys of the result are exactly those rooms, so    *)
(* with no room reported the result is the empty map and nothing is read,   *)
(* and with only B reported the result has exactly the key B.               *)
(***************************************************************************)
C4_OnlyChangedRoomsAreRead ==
    IsStreamForRooms(ret) =>
        /\ ret.res.queried \subseteq ReportedChanged(ret)
        /\ Len(ret.res.interactions) = Cardinality(ret.res.queried)
        /\ DOMAIN ret.res.results = ReportedChanged(ret)
        /\ ReportedChanged(ret) = {} =>
             /\ ret.res.interactions = <<>>
             /\ DOMAIN ret.res.results = {}

\* both rooms asked for, A known to be unchanged, B read from the database
C4_Witness ==
    /\ IsStreamForRooms(ret)
    /\ ret.room_ids = {"A", "B"}
    /\ stream_cache["A"] # NoInfo
    /\ ReportedChanged(ret) = {"B"}
    /\ DOMAIN ret.res.results = {"B"}
    /\ ret.res.queried = {"B"}

(***************************************************************************)
(* C5 as stated: a room with no non-outlier event in (from, to] is never a *)
(* key of the result of get_room_events_stream_for_rooms.                   *)
(***************************************************************************)
C5_EmptyRoomsOmitted ==
    IsStreamForRooms(ret) =>
        \A room \in ret.room_ids :
            WindowEmpty(room, ret.from_key, ret.to_key)
                => room \notin DOMAIN ret.res.results

(***************************************************************************)
(* C5 amended: the map omits exactly the rooms the change cache reports as *)
(* unchanged since from_token.stream; a room the cache reports as possibly *)
(* changed is a key of the result also when it has no non-outlier event in *)
(* (from, to], and then it maps to ([], from_key).                          *)
(***************************************************************************)
C5_UnchangedRoomsOmitted ==
    IsStreamForRooms(ret) =>
        \A room \in ret.room_ids :
            /\ room \in DOMAIN ret.res.results
                 <=> CacheReports(room, ParseToken(ret.from_key).stream)
            /\ ( /\ room \in DOMAIN ret.res.results
                 /\ WindowEmpty(room, ret.from_key, ret.to_key) )
                 => ret.res.results[room] = [events |-> <<>>, key |-> ret.from_key]

\* a room with nothing in the window that the cache knows to have changed
C5_Witness ==
    /\ IsStreamForRooms(ret)
    /\ \E room \in ret.room_ids :
        /\ stream_cache[room] # NoInfo
        /\ WindowEmpty(room, ret.from_key, ret.to_key)
        /\ room \in DOMAIN ret.res.results
        /\ ret.res.results[room].events = <<>>
        /\ room \in ret.res.queried

(***************************************************************************)
(* The live sync scenario: room A holds e1..e5 (stream 1..5, depths 1..5), *)
(* the cache reports A as changed, and the call is                          *)
(* get_room_events_stream_for_room(A, "s2", "s5", BigLimit, "ASC").         *)
(***************************************************************************)
LiveSync ==
    /\ events = LinearRoom
    /\ IsStreamForRoom(ret)
    /\ ret.room_id = "A"
    /\ ret.from_key = <<"s", "2">>
    /\ ret.to_key = <<"s", "5">>
    /\ ret.limit = BigLimit
    /\ ret.order = "ASC"
    /\ CacheReports("A", 2)

(***************************************************************************)
(* C6 as stated: the live sync call returns [e3, e4, e5] and the next      *)
(* token "s5".                                                              *)
(***************************************************************************)
C6_LiveSyncNextIsS5 ==
    LiveSync =>
        /\ IdSeq(ret.res.events) = <<EventId(3), EventId(4), EventId(5)>>
        /\ ret.res.key = <<"s", "5">>

(***************************************************************************)
(* C6 amended: the live sync call returns [e3, e4, e5] in that order and   *)
(* the next token "s3", the minimum stream_ordering of the returned rows.   *)
(***************************************************************************)
C6_LiveSyncNextIsS3 ==
    LiveSync =>
        /\ IdSeq(ret.res.events) = <<EventId(3), EventId(4), EventId(5)>>
        /\ ret.res.key = <<"s", "3">>

C6_Witness == LiveSync /\ Len(ret.res.events) = 3

(***************************************************************************)
(* C7: get_room_events_stream_for_room(R, None, to, limit, "DESC") returns *)
(* the `limit` composite-greatest non-outlier events of R with              *)
(* stream_ordering <= to.stream, in ascending composite order, and the key  *)
(* "s" + the minimum stream_ordering of the returned rows, or from_token    *)
(* (None) when no row is returned; for e1..e5, to "s5" and limit 3 that is  *)
(* [e3, e4, e5] and "s3".                                                   *)
(***************************************************************************)
C7_FreshRoomRead ==
    (IsStreamForRoom(ret) /\ ret.from_key = None /\ ret.order = "DESC") =>
        LET S == {e \in Eligible(ret.room_id) :
                    e.stream_ordering <= ParseToken(ret.to_key).stream}
            evs == ret.res.events
            got == {RowOf(evs[i]) : i \in 1..Len(evs)}
        IN  /\ Len(evs) = Min2(ret.limit, Cardinality(S))
            /\ Cardinality(got) = Len(evs)
            /\ got \subseteq S
            /\ \A x \in got, y \in S \ got : CompositeLess(y, x)
            /\ AscendingComposite(evs)
            /\ evs # <<>> =>
                 /\ ret.res.key[1] = "s"
                 /\ ParseToken(ret.res.key) =
                      StreamTok(SetMin({evs[i].stream_ordering : i \in 1..Len(evs)}))
            /\ evs = <<>> => ret.res.key = None
            /\ ( /\ events = LinearRoom
                 /\ ret.room_id = "A"
                 /\ ret.to_key = <<"s", "5">>
                 /\ ret.limit = 3 ) =>
                    /\ IdSeq(evs) = <<EventId(3), EventId(4), EventId(5)>>
                    /\ ret.res.key = <<"s", "3">>

\* a limited fresh read of a room whose stream order is not its composite order
C7_Witness ==
    /\ IsStreamForRoom(ret)
    /\ ret.from_key = None
    /\ ret.order = "DESC"
    /\ ret.limit >= 1
    /\ Len(ret.res.events) = ret.limit
    /\ \E x \in IdsOf(ret.res.events), y \in Eligible(ret.room_id) :
            /\ y.event_id \notin IdsOf(ret.res.events)
            /\ y.stream_ordering <= ParseToken(ret.to_key).stream
            /\ RowOf([event_id |-> x]).stream_ordering < y.stream_ordering

(***************************************************************************)
(* C8 as stated: no read operation returns an event whose outlier flag is  *)
(* true.                                                                    *)
(***************************************************************************)
ReturnedEvents(r) ==
    CASE r.op = "get_events_around" ->
            SeqToSet(r.res.events_before) \cup SeqToSet(r.res.events_after)
      [] r.op = "get_room_events_stream_for_rooms" ->
            UNION {SeqToSet(r.res.results[x].events) : x \in DOMAIN r.res.results}
      [] OTHER -> SeqToSet(r.res.events)

C8_NoOutlierReturned ==
    (ret # Idle /\ IsOk(ret)) => \A e \in ReturnedEvents(ret) : ~e.outlier

(***************************************************************************)
(* The chunks whose events carry before/after cursors.                      *)
(***************************************************************************)
AnnotatedChunks(r) ==
    CASE r.op = "get_events_around" -> {}
      [] r.op = "get_room_events_stream_for_rooms" ->
            {r.res.results[x].events : x \in DOMAIN r.res.results}
      [] OTHER -> {r.res.events}

\* the operations that annotate with topological cursors
TopoAnnotated(r) ==
    \/ r.op \in {"paginate_room_events", "get_recent_events_for_room"}
    \/ r.op = "get_room_events_stream_for_room" /\ r.from_key = None

(***************************************************************************)
(* C9 as stated: for adjacent events of the same room in a returned chunk, *)
(* event[i].after == event[i+1].before.                                     *)
(***************************************************************************)
C9_AdjacentCursorsCompose ==
    (ret # Idle /\ IsOk(ret)) =>
        \A chunk \in AnnotatedChunks(ret) :
            \A i \in 1..Len(chunk) - 1 :
                chunk[i].room_id = chunk[i + 1].room_id
                    => chunk[i].after = chunk[i + 1].before

(***************************************************************************)
(* C9 amended: for adjacent events of the same room in a chunk returned by *)
(* get_room_events_stream_for_room(s), get_membership_changes_for_user,     *)
(* paginate_room_events or get_recent_events_for_room,                      *)
(* event[i].after == event[i+1].before holds exactly when                   *)
(* stream_ordering(event[i+1]) = stream_ordering(event[i]) + 1 and, where   *)
(* the cursors are topological, both events have the same depth.            *)
(***************************************************************************)
C9_CursorsComposeWhenConsecutive ==
    (ret # Idle /\ IsOk(ret) /\ ret.op # "get_appservice_room_stream") =>
        \A chunk \in AnnotatedChunks(ret) :
            \A i \in 1..Len(chunk) - 1 :
                chunk[i].room_id = chunk[i + 1].room_id =>
                    ( chunk[i].after = chunk[i + 1].before
                      <=> /\ chunk[i + 1].stream_ordering = chunk[i].stream_ordering + 1
                          /\ TopoAnnotated(ret) => chunk[i].depth = chunk[i + 1].depth )

\* a chunk with topological cursors and an adjacent pair that composes
C9_Witness ==
    /\ ret # Idle
    /\ IsOk(ret)
    /\ TopoAnnotated(ret)
    /\ \E chunk \in AnnotatedChunks(ret) :
        \E i \in 1..Len(chunk) - 1 :
            /\ chunk[i].room_id = chunk[i + 1].room_id
            /\ chunk[i].depth = chunk[i + 1].depth
            /\ chunk[i].after = chunk[i + 1].before

(***************************************************************************)
(* C10: for the token T of a pagination and every row of the table exactly *)
(* one of lower_bound(T) and upper_bound(T) holds, and the unlimited        *)
(* paginations from T backwards and forwards together return every          *)
(* non-outlier event of the room exactly once.                              *)
(***************************************************************************)
OtherDirection(d) == IF d = "b" THEN "f" ELSE "b"

C10_BoundsPartitionTheRoom ==
    IsPaginate(ret) =>
        /\ \A row \in events :
                lower_bound(ParseToken(ret.from_key), row)
                    # upper_bound(ParseToken(ret.from_key), row)
        /\ (ret.to_key = None /\ ret.limit <= 0) =>
             LET here == ret.res.events
                 there == paginate_room_events(ret.room_id, ret.from_key, None,
                                               OtherDirection(ret.direction), 0).events
             IN  /\ IdsOf(here) \cap IdsOf(there) = {}
                 /\ IdsOf(here) \cup IdsOf(there)
                        = {e.event_id : e \in Eligible(ret.room_id)}
                 /\ Len(here) + Len(there) = Cardinality(Eligible(ret.room_id))

\* an unlimited backward pagination from the cursor of an event of the room,
\* with events on both sides
C10_Witness ==
    /\ IsPaginate(ret)
    /\ ret.to_key = None
    /\ ret.limit <= 0
    /\ ret.direction = "b"
    /\ ParseToken(ret.from_key).topological # <<>>
    /\ \E e \in Eligible(ret.room_id) :
            /\ get_topological_token_for_event(e) = ret.from_key
            /\ e.event_id \in IdsOf(ret.res.events)
    /\ \E e \in Eligible(ret.room_id) : e.event_id \notin IdsOf(ret.res.events)

(***************************************************************************)
(* The app service scenario: room A holds e1 (message, stream 1), e2 (the   *)
(* join of @u, stream 2) and e3 (message, stream 3); a service interested   *)
(* only in user @u calls get_appservice_room_stream(svc, "s0", "s3", 0).    *)
(***************************************************************************)
AppServiceFilter ==
    /\ events = JoinedRoom
    /\ IsAppService(ret)
    /\ ret.service = [rooms |-> {}, users |-> {UserU}]
    /\ ret.from_key = <<"s", "0">>
    /\ ret.to_key = <<"s", "3">>
    /\ ret.limit = 0

\* the rows of the window (from, to] of a call, whatever their room
Scanned(r) ==
    {e \in events : /\ e.stream_ordering > ParseToken(r.from_key).stream
                    /\ e.stream_ordering <= ParseToken(r.to_key).stream}

(***************************************************************************)
(* C11 as stated: get_appservice_room_stream returns as next token "s" +   *)
(* the maximum stream_ordering over the returned (interesting) events, or   *)
(* to_token if nothing is returned; the scenario returns [e2] and "s2".     *)
(***************************************************************************)
C11_KeyIsMaxOfReturnedEvents ==
    (IsAppService(ret) /\ IsOk(ret)) =>
        /\ ret.res.events # <<>> =>
             ParseToken(ret.res.key) =
                StreamTok(SetMax({ret.res.events[i].stream_ordering :
                                    i \in 1..Len(ret.res.events)}))
        /\ ret.res.events = <<>> => ret.res.key = ret.to_key
        /\ AppServiceFilter =>
             /\ IdSeq(ret.res.events) = <<EventId(2)>>
             /\ ret.res.key = <<"s", "2">>

(***************************************************************************)
(* C11 amended: get_appservice_room_stream returns as next token "s" + the *)
(* maximum stream_ordering over the rows selected in                        *)
(* (from_token.stream, to_token.stream] before the interest filter, or      *)
(* to_token if no row is selected; the scenario returns [e2] and "s3".      *)
(***************************************************************************)
C11_KeyIsMaxOfScannedRows ==
    (IsAppService(ret) /\ IsOk(ret)) =>
        /\ Scanned(ret) # {} =>
             /\ ret.res.key[1] = "s"
             /\ ParseToken(ret.res.key) =
                    StreamTok(SetMax({e.stream_ordering : e \in Scanned(ret)}))
        /\ Scanned(ret) = {} => ret.res.key = ret.to_key
        /\ AppServiceFilter =>
             /\ IdSeq(ret.res.events) = <<EventId(2)>>
             /\ ret.res.key = <<"s", "3">>

C11_Witness == AppServiceFilter /\ IsOk(ret) /\ Len(ret.res.events) = 1

(***************************************************************************)
(* The context window scenario: get_events_around(A, e3, 1, 1) on e1..e5.   *)
(***************************************************************************)
ContextWindow ==
    /\ events = LinearRoom
    /\ IsAround(ret)
    /\ ret.room_id = "A"
    /\ ret.event_id = EventId(3)
    /\ ret.before_limit = 1
    /\ ret.after_limit = 1

\* the n rows of S nearest to the pin: every one of them nearer than the rest
NearestBelow(got, S, n) ==
    /\ got \subseteq S
    /\ Cardinality(got) = Min2(n, Cardinality(S))
    /\ \A x \in got, y \in S \ got : CompositeLess(y, x)
NearestAbove(got, S, n) ==
    /\ got \subseteq S
    /\ Cardinality(got) = Min2(n, Cardinality(S))
    /\ \A x \in got, y \in S \ got : CompositeLess(x, y)

(***************************************************************************)
(* C12: get_events_around(R, e, before_limit, after_limit) for e in R       *)
(* returns the before_limit events of R nearest below e and the after_limit *)
(* events nearest above e in composite order, e in neither list and no      *)
(* event in both; start is the topological token of the first "before" row  *)
(* with the stream part minus one (of the pin minus one stream tick if      *)
(* there is none), end the topological token of the last "after" row (of    *)
(* the pin if there is none); get_events_around(R, e3, 1, 1) on e1..e5 is   *)
(* [e2], [e4], "t2-1", "t4-4".                                              *)
(***************************************************************************)
C12_ContextWindow ==
    IsAround(ret) =>
        LET pin == CHOOSE e \in events :
                        e.event_id = ret.event_id /\ e.room_id = ret.room_id
            room == RoomRows(events, ret.room_id)
            before == ret.res.events_before
            after == ret.res.events_after
            B == {RowOf(before[i]) : i \in 1..Len(before)}
            A == {RowOf(after[i]) : i \in 1..Len(after)}
        IN  /\ Cardinality(B) = Len(before)
            /\ Cardinality(A) = Len(after)
            /\ NearestBelow(B, {x \in room : CompositeLess(x, pin)}, ret.before_limit)
            /\ NearestAbove(A, {x \in room : CompositeLess(pin, x)}, ret.after_limit)
            /\ pin \notin B \cup A
            /\ B \cap A = {}
            /\ ret.res.start[1] = "t"
            /\ ret.res.end[1] = "t"
            /\ ParseToken(ret.res.start) =
                 IF before # <<>>
                 THEN TopoTok(before[1].topological_ordering,
                              before[1].stream_ordering - 1)
                 ELSE TopoTok(pin.topological_ordering, pin.stream_ordering - 1)
            /\ ParseToken(ret.res.end) =
                 IF after # <<>>
                 THEN TopoTok(after[Len(after)].topological_ordering,
                              after[Len(after)].stream_ordering)
                 ELSE TopoTok(pin.topological_ordering, pin.stream_ordering)
            /\ ContextWindow =>
                 /\ IdSeq(before) = <<EventId(2)>>
                 /\ IdSeq(after) = <<EventId(4)>>
                 /\ ret.res.start = <<"t", "2", "-", "1">>
                 /\ ret.res.end = <<"t", "4", "-", "4">>

C12_Witness == ContextWindow /\ Len(ret.res.events_before) = 1

(***************************************************************************)
(* C13: for every event e, paginate_room_events(room_of(e),                 *)
(* get_stream_token_for_event(e), direction 'f', limit 1) returns, when it  *)
(* returns an event, one whose stream_ordering is strictly greater than     *)
(* e's: never e itself, never an event inserted before e in stream order.   *)
(***************************************************************************)
C13_ForwardFromStreamTokenIsLater ==
    (IsPaginate(ret) /\ ret.direction = "f" /\ ret.limit = 1) =>
        \A e \in RoomRows(events, ret.room_id) :
            get_stream_token_for_event(e) = ret.from_key =>
                \A i \in 1..Len(ret.res.events) :
                    /\ ret.res.events[i].stream_ordering > e.stream_ordering
                    /\ ret.res.events[i].event_id # e.event_id

\* the event returned lies below e in composite order, though later in the stream
C13_Witness ==
    /\ IsPaginate(ret)
    /\ ret.direction = "f"
    /\ ret.limit = 1
    /\ Len(ret.res.events) = 1
    /\ \E e \in RoomRows(events, ret.room_id) :
            /\ get_stream_token_for_event(e) = ret.from_key
            /\ CompositeLess(RowOf(ret.res.events[1]), e)
            /\ \E x \in Eligible(ret.room_id) : x.stream_ordering < e.stream_ordering

(***************************************************************************)
(* A client paging backwards through a room: after the table is filled it  *)
(* calls paginate_room_events(R, token, direction 'b', limit n >= 1) and    *)
(* goes on calling with the token each call returned; nothing is inserted   *)
(* once it has started.                                                     *)
(***************************************************************************)
PageLimits == 1..MaxLimit

PageStart ==
    /\ ret = Idle
    /\ \E room_id \in Rooms, from_key \in StreamKeys \cup TopoKeys, limit \in PageLimits :
        Reads([op |-> "paginate_room_events", room_id |-> room_id,
               from_key |-> from_key, to_key |-> None, direction |-> "b",
               limit |-> limit,
               res |-> paginate_room_events(room_id, from_key, None, "b", limit)])

PageStep ==
    /\ ret # Idle
    /\ ret.res.status = "ok"
    /\ \E limit \in PageLimits :
        /\ ret' = [op |-> "paginate_room_events", room_id |-> ret.room_id,
                   from_key |-> ret.res.key, to_key |-> None,
                   direction |-> "b", limit |-> limit,
                   res |-> paginate_room_events(ret.room_id, ret.res.key, None,
                                                "b", limit)]
        /\ prev' = ret
        /\ UNCHANGED <<events, stream_cache, member_cache, rest>>

PageNext ==
    \/ InsertEvent
    \/ BackfillEvent
    \/ PageStart
    \/ PageStep

PageSpec == Init /\ [][PageNext]_vars

\* the non-outlier events of the room at or below a cursor: what a backward
\* pagination from it has still to return
Remaining(room_id, key) ==
    {e \in Eligible(room_id) : upper_bound(ParseToken(key), e)}

\* the chunk holds the first non-outlier event of its room in composite order
HoldsFirstEvent(r) ==
    \E i \in 1..Len(r.res.events) :
        \A x \in Eligible(r.room_id) :
            x = RowOf(r.res.events[i]) \/ CompositeLess(RowOf(r.res.events[i]), x)

\* what holds of every call of the client: it returns something while
\* something remains, a chunk comes with a topological cursor, a chunk
\* returned from a topological cursor shrinks what remains, and an empty
\* chunk hands the token back
PageProgress ==
    ret # Idle =>
        /\ ret.res.status = "ok"
        /\ IsToken(ParseToken(ret.res.key))
        /\ Remaining(ret.room_id, ret.from_key) # {} => ret.res.events # <<>>
        /\ ret.res.events # <<>> => ParseToken(ret.res.key).topological # <<>>
        /\ (ret.res.events # <<>> /\ ParseToken(ret.from_key).topological # <<>>) =>
             /\ Remaining(ret.room_id, ret.res.key)
                    \subseteq Remaining(ret.room_id, ret.from_key)
             /\ Remaining(ret.room_id, ret.res.key)
                    # Remaining(ret.room_id, ret.from_key)
        /\ ret.res.events = <<>> => ret.res.key = ret.from_key
        /\ HoldsFirstEvent(ret) => Remaining(ret.room_id, ret.res.key) = {}

\* what holds of a call made with the token of the call before it
PageChainOk ==
    (ret # Idle /\ prev # Idle) =>
        /\ IsToken(ParseToken(prev.res.key))
        /\ ret.res.status = "ok"
        /\ HoldsFirstEvent(prev) => ret.res.events = <<>>
        /\ prev.res.events = <<>> =>
             /\ ret.res.events = <<>>
             /\ ret.from_key = prev.from_key
             /\ ret.res.key = prev.res.key

(***************************************************************************)
(* C14: in a room with finitely many events and no concurrent inserts,     *)
(* repeated backward pagination with limit >= 1, each call fed the token    *)
(* the last one returned, ends in empty chunks: a call returns an event     *)
(* while one remains at or below its cursor, every chunk comes with a       *)
(* topological cursor, every chunk returned from a topological cursor       *)
(* leaves strictly fewer events at or below the next cursor, and an empty   *)
(* chunk echoes the token; the token returned with the chunk that holds the       *)
(* room's first event is well formed and accepted, the call made with it    *)
(* returns nothing, and so does every later call with the echoed token.     *)
(***************************************************************************)
C14_BackwardPaginationTerminates == PageProgress /\ PageChainOk

\* the chunk with the room's first event, a backfilled one, was followed by an
\* empty chunk from a token with a negative stream part
C14_Witness ==
    /\ ret # Idle
    /\ prev # Idle
    /\ prev.res.events # <<>>
    /\ HoldsFirstEvent(prev)
    /\ ret.res.events = <<>>
    /\ ParseToken(ret.from_key).stream < 0

(***************************************************************************)
(* The fan-out of get_room_events_stream_for_rooms, step by step: the rooms *)
(* that survive the change cache are cut into slices room_ids[i:i + 20];    *)
(* the per-room calls of a slice are started together, each dispatches one  *)
(* DB interaction (none when from_key = to_key), gatherResults fires when   *)
(* the last of them has completed, and only then the next slice is taken.   *)
(* ret holds the call in progress: its position pc, the slice index i, the  *)
(* number of per-room queries not yet completed and the rooms in results.   *)
(***************************************************************************)
NRooms == 22
FANOUT == 20
FanRooms == 1..NRooms

\* the slice is the rest of the list
Slice_Unbounded(room_ids, i) == SubSeq(room_ids, i, Len(room_ids))

\* room_ids[i:i + 20]
Slice(room_ids, i) == SubSeq(room_ids, i, Min2(i + FANOUT - 1, Len(room_ids)))

\* list(room_ids)
AsList(S) == [i \in 1..Cardinality(S) |-> CHOOSE r \in S : Cardinality({x \in S : x < r}) = i - 1]

\* the first k rooms have changed since stream position 0
FanInit ==
    /\ events = {}
    /\ \E k \in 0..NRooms :
        stream_cache = [r \in FanRooms |-> IF r <= k THEN <<1>> ELSE <<0>>]
    /\ member_cache = [u \in Users |-> NoInfo]
    /\ ret = Idle
    /\ prev = Idle
    /\ hs = HomeServer({})
    /\ gen = StreamIdGenerator(CurrentToken)
    /\ memo = NoEntries

FanFrame == UNCHANGED <<events, stream_cache, member_cache, prev, rest>>

\* the call up to the loop: the rooms are pruned by the change cache
FanCall ==
    /\ ret = Idle
    /\ \E to_key \in {<<"s", "0">>, <<"s", "1">>} :
        LET from_key == <<"s", "0">>
            room_ids == RoomsToQuery(FanRooms, ParseStreamToken(from_key).stream)
        IN  ret' = [op |-> "get_room_events_stream_for_rooms",
                    pc |-> IF room_ids = {} THEN "done" ELSE "loop",
                    from_key |-> from_key, to_key |-> to_key,
                    room_ids |-> AsList(room_ids), i |-> 1,
                    in_flight |-> 0, results |-> {}, error |-> None]
    /\ FanFrame

\* the per-room calls of the next slice are started
FanStartBatch ==
    /\ ret # Idle
    /\ ret.pc = "loop"
    /\ ret' = [ret EXCEPT
                !.pc = "gather",
                !.in_flight = IF SameKeys(ret.from_key, ret.to_key) THEN 0
                              ELSE Len(Slice(ret.room_ids, ret.i))]
    /\ FanFrame

\* one DB interaction completes
FanComplete ==
    /\ ret # Idle
    /\ ret.pc = "gather"
    /\ ret.in_flight > 0
    /\ ret' = [ret EXCEPT !.in_flight = @ - 1]
    /\ FanFrame

\* gatherResults fires: results.update(dict(zip(rm_ids, res)))
FanJoin ==
    /\ ret # Idle
    /\ ret.pc = "gather"
    /\ ret.in_flight = 0
    /\ ret' = [ret EXCEPT
                !.results = @ \cup SeqToSet(Slice(ret.room_ids, ret.i)),
                !.i = @ + FANOUT,
                !.pc = IF ret.i + FANOUT > Len(ret.room_ids) THEN "done" ELSE "loop"]
    /\ FanFrame

\* one DB interaction fails: gatherResults fires its errback with the first
\* error, the exception is raised at the yield and leaves the generator, so
\* the caller has the error and no map.  gatherResults does not touch the
\* other Deferreds of the list.
FanFail ==
    /\ ret # Idle
    /\ ret.pc = "gather"
    /\ ret.in_flight > 0
    /\ \E j \in 1..Len(Slice(ret.room_ids, ret.i)) :
        ret' = [ret EXCEPT
                    !.pc = "failed",
                    !.in_flight = @ - 1,
                    !.error = <<Slice(ret.room_ids, ret.i)[j]>>]
    /\ FanFrame

\* a DB interaction of the failed call completes; nobody takes its result
FanOrphan ==
    /\ ret # Idle
    /\ ret.pc = "failed"
    /\ ret.in_flight > 0
    /\ ret' = [ret EXCEPT !.in_flight = @ - 1]
    /\ FanFrame

\* nothing of the call is left
FanReturn ==
    /\ ret # Idle
    /\ ret.pc \in {"done", "failed"}
    /\ ret.in_flight = 0
    /\ ret' = Idle
    /\ FanFrame

FanNext ==
    \/ FanCall
    \/ FanStartBatch
    \/ FanComplete
    \/ FanJoin
    \/ FanFail
    \/ FanOrphan
    \/ FanReturn

FanSpec == FanInit /\ [][FanNext]_vars

(***************************************************************************)
(* C15: within one call of get_room_events_stream_for_rooms at most 20     *)
(* per-room queries are in flight at any moment, whatever the number of     *)
(* rooms that survive the change cache, and a batch is started only after   *)
(* every query of the previous batch has completed: while queries are in    *)
(* flight they are queries of the current slice, and every room of an       *)
(* earlier slice already has its result.                                    *)
(***************************************************************************)
C15_AtMostTwentyInFlight ==
    ret # Idle =>
        /\ ret.in_flight <= FANOUT
        /\ ret.in_flight <= Len(Slice(ret.room_ids, ret.i))
        /\ ret.pc \in {"loop", "gather"} =>
             ret.results = {ret.room_ids[j] : j \in 1..(ret.i - 1)}
        /\ ret.pc = "loop" => ret.in_flight = 0

\* more than 20 rooms survive, the first 20 have their results and the
\* queries of the second slice are in flight
C15_Witness ==
    /\ ret # Idle
    /\ Len(ret.room_ids) > FANOUT
    /\ ret.pc = "gather"
    /\ ret.i = FANOUT + 1
    /\ ret.in_flight > 0
    /\ Cardinality(ret.results) = FANOUT

\* the call's window (from, to] holds a non-outlier event of its room
WindowHoldsEvent(r) ==
    \E e \in Eligible(r.room_id) :
        /\ e.stream_ordering > ParseToken(r.from_key).stream
        /\ e.stream_ordering <= ParseToken(r.to_key).stream

(***************************************************************************)
(* C16: under any interleaving of inserts (each updating the room change   *)
(* cache), cache evictions and reads, a call                                *)
(* get_room_events_stream_for_room(R, from, to, limit >= 1) whose window    *)
(* (from, to] holds a non-outlier event of R does not return the empty      *)
(* result through the "unchanged" short-circuit: it reads the table and     *)
(* returns an event; and a room the cache has no information about is       *)
(* always read.                                                             *)
(***************************************************************************)
C16_ShortCircuitHidesNothing ==
    (IsStreamForRoom(ret) /\ ret.from_key # None /\ ret.from_key # ret.to_key) =>
        /\ (ret.limit >= 1 /\ WindowHoldsEvent(ret)) =>
              /\ ret.res.interactions # <<>>
              /\ ret.res.events # <<>>
        /\ stream_cache[ret.room_id] = NoInfo => ret.res.interactions # <<>>

\* the cache knew the room, was asked, and the window's events came back
C16_Witness ==
    /\ IsStreamForRoom(ret)
    /\ ret.from_key # None
    /\ ret.limit >= 1
    /\ WindowHoldsEvent(ret)
    /\ ret.res.lookups = 1
    /\ stream_cache[ret.room_id] # NoInfo
    /\ ParseToken(ret.from_key).stream < 0
    /\ ret.res.events # <<>>

(***************************************************************************)
(* server.py: get_X, made by _make_dependency_method.  A builder is code of *)
(* a subclass: once entered it may call any get_X, return its instance or   *)
(* raise, and it may catch what a get_X it called has raised.               *)
(***************************************************************************)
\* the attribute is never found
Memoized_Never(h, depname) == FALSE

\* try: return getattr(hs, depname)
Memoized(h, depname) == h.attrs[depname] # Unset

\* builder = getattr(hs, "build_%s" % (depname))
HasBuilder(depname) == depname \in Builders

\* no dependency is ever seen in flight
InFlight_Never(h, depname) == FALSE

\* if depname in hs._building
InFlight(h, depname) == depname \in h.building

\* a builder of depname has been entered and has not returned
BeingBuilt(h, depname) == \E i \in 1..Len(h.stack) : h.stack[i] = depname

Called(depname, during, outcome, value) ==
    [dep |-> depname, during |-> during, outcome |-> outcome, value |-> value]

\* _get(hs) up to the call of builder()
Get(h, depname) ==
    LET during == BeingBuilt(h, depname)
    IN  IF Memoized(h, depname)
        THEN [h EXCEPT !.last = Called(depname, during, "value", h.attrs[depname])]
        ELSE IF ~HasBuilder(depname)
        THEN [h EXCEPT
                !.exc = [kind |-> "NotImplementedError", dep |-> depname],
                !.last = Called(depname, during, "no builder", Unset)]
        ELSE IF InFlight(h, depname)
        THEN [h EXCEPT
                !.exc = [kind |-> "Cyclic dependency", dep |-> depname],
                !.last = Called(depname, during, "cyclic", Unset)]
        ELSE [h EXCEPT
                !.building = @ \cup {depname},
                !.stack = Append(@, depname),
                !.calls[depname] = @ + 1,
                !.last = Called(depname, during, "build", Unset)]

HsFrame == UNCHANGED <<events, stream_cache, member_cache, ret, prev, gen, memo>>

\* the constructor's kwargs
HsInit ==
    /\ events = {}
    /\ stream_cache = [r \in Rooms |-> NoInfo]
    /\ member_cache = [u \in Users |-> NoInfo]
    /\ ret = Idle
    /\ prev = Idle
    /\ \E kwargs \in SUBSET DEPENDENCIES : hs = HomeServer(kwargs)
    /\ gen = StreamIdGenerator(0)
    /\ memo = NoEntries

\* a client calls hs.get_X()
HsGet ==
    /\ hs.stack = <<>>
    /\ hs.exc = NoError
    /\ \E depname \in DEPENDENCIES :
        /\ hs.calls[depname] < MaxBuilds
        /\ hs' = Get(hs, depname)
    /\ HsFrame

\* the builder running calls hs.get_X()
HsNestedGet ==
    /\ hs.stack # <<>>
    /\ hs.exc = NoError
    /\ \E depname \in DEPENDENCIES :
        /\ hs.calls[depname] < MaxBuilds
        /\ hs' = Get(hs, depname)
    /\ HsFrame

\* dep = builder(); setattr(hs, depname, dep); del hs._building[depname]
HsBuilt ==
    /\ hs.stack # <<>>
    /\ hs.exc = NoError
    /\ LET depname == hs.stack[Len(hs.stack)]
           dep == <<depname, hs.calls[depname]>>
       IN  hs' = [hs EXCEPT
                    !.attrs[depname] = dep,
                    !.building = @ \ {depname},
                    !.stack = SubSeq(@, 1, Len(@) - 1),
                    !.last = Called(depname, FALSE, "built", dep)]
    /\ HsFrame

\* the builder running raises
HsBuilderRaises ==
    /\ hs.stack # <<>>
    /\ hs.exc = NoError
    /\ hs' = [hs EXCEPT !.exc = [kind |-> "Error", dep |-> hs.stack[Len(hs.stack)]]]
    /\ HsFrame

\* the exception leaves the builder running and the _get that called it
HsUnwind ==
    /\ hs.stack # <<>>
    /\ hs.exc # NoError
    /\ hs' = [hs EXCEPT !.stack = SubSeq(@, 1, Len(@) - 1)]
    /\ HsFrame

\* the builder running catches the exception of the get_X it called
HsCatch ==
    /\ hs.stack # <<>>
    /\ hs.exc # NoError
    /\ hs' = [hs EXCEPT !.exc = NoError]
    /\ HsFrame

\* the exception reaches the client
HsFail ==
    /\ hs.stack = <<>>
    /\ hs.exc # NoError
    /\ hs' = [hs EXCEPT !.exc = NoError]
    /\ HsFrame

HsNext ==
    \/ HsGet
    \/ HsNestedGet
    \/ HsBuilt
    \/ HsBuilderRaises
    \/ HsUnwind
    \/ HsCatch
    \/ HsFail

HsSpec == HsInit /\ [][HsNext]_vars

(***************************************************************************)
(* C17: while build_d has been entered and has not returned, a nested       *)
(* resolution that reaches get_d again, directly or through other builders, *)
(* fails with the cyclic-dependency error naming d, and build_d is not      *)
(* entered a second time.                                                   *)
(***************************************************************************)
C17_CycleDetected ==
    /\ \A i, j \in 1..Len(hs.stack) : hs.stack[i] = hs.stack[j] => i = j
    /\ \A i \in 1..Len(hs.stack) : hs.stack[i] \in hs.building
    /\ (hs.last # NoCall /\ hs.last.during) => hs.last.outcome = "cyclic"
    /\ hs.exc.kind = "Cyclic dependency" =>
            /\ hs.last.outcome = "cyclic"
            /\ hs.exc.dep = hs.last.dep

\* get_d reached again through two other builders
C17_Witness ==
    /\ Len(hs.stack) = 3
    /\ hs.last # NoCall
    /\ hs.last.during
    /\ hs.last.dep = hs.stack[1]
    /\ hs.exc = [kind |-> "Cyclic dependency", dep |-> hs.stack[1]]

MaxIds == 3

\* StreamIdGenerator.get_current_token: the largest prefix of consecutive
\* committed ids
get_current_token(g) ==
    IF g.pending = {} THEN g.allocated
    ELSE SetMin({e.stream_ordering : e \in g.pending}) - 1

\* _get_max_topological_txn: SELECT MAX(topological_ordering) ... WHERE
\* outlier = False; MAX over no row is NULL
get_max_topological_txn ==
    IF {e \in events : ~e.outlier} = {} THEN None
    ELSE <<SetMax({e.topological_ordering : e \in {x \in events : ~x.outlier}})>>

\* the position one past the generator's token
get_room_events_max_id_NextId(direction) ==
    LET token == get_current_token(gen) + 1
    IN  IF direction # "b"
        THEN [status |-> "ok", key |-> <<"s">> \o IntToStr(token)]
        ELSE LET topo == get_max_topological_txn
             IN  IF topo = None
                 THEN [status |-> "TypeError", key |-> None]
                 ELSE [status |-> "ok",
                       key |-> <<"t">> \o IntToStr(topo[1]) \o <<"-">> \o IntToStr(token)]

\* "%d" of None raises TypeError
get_room_events_max_id(direction) ==
    LET token == get_current_token(gen)
    IN  IF direction # "b"
        THEN [status |-> "ok", key |-> <<"s">> \o IntToStr(token)]
        ELSE LET topo == get_max_topological_txn
             IN  IF topo = None
                 THEN [status |-> "TypeError", key |-> None]
                 ELSE [status |-> "ok",
                       key |-> <<"t">> \o IntToStr(topo[1]) \o <<"-">> \o IntToStr(token)]

GenInit ==
    /\ events = {}
    /\ stream_cache = [r \in Rooms |-> NoInfo]
    /\ member_cache = [u \in Users |-> NoInfo]
    /\ ret = Idle
    /\ prev = Idle
    /\ hs = HomeServer({})
    /\ gen = StreamIdGenerator(0)
    /\ memo = NoEntries

\* a writer takes the next id for the message it is about to insert
GenNext ==
    /\ gen.allocated < MaxIds
    /\ \E room \in Rooms, depth \in 1..MaxDepth :
        gen' = [gen EXCEPT
                  !.allocated = @ + 1,
                  !.pending = @ \cup {Event(room, Message, NoStateKey, FALSE,
                                            gen.allocated + 1, depth)}]
    /\ UNCHANGED <<events, stream_cache, member_cache, ret, prev, hs, memo>>

\* the transaction of one of the writers commits
GenCommit ==
    /\ \E ev \in gen.pending :
        /\ Persist(ev)
        /\ gen' = [gen EXCEPT !.pending = @ \ {ev}]
    /\ UNCHANGED <<hs, memo>>

\* a backfilled row is inserted
GenBackfill ==
    /\ BackfillToken = 0
    /\ \E room \in Rooms, depth \in 1..MaxDepth :
        Persist(Event(room, Message, NoStateKey, FALSE, BackfillToken - 1, depth))
    /\ UNCHANGED <<hs, gen, memo>>

\* a reader asks for the current position
GenMaxId ==
    /\ \E direction \in Directions :
        LET res == get_room_events_max_id(direction)
        IN  /\ ret' = [op |-> "get_room_events_max_id", direction |-> direction,
                       res |-> res]
            /\ gen' = IF res.status = "ok"
                      THEN [gen EXCEPT
                              !.returned = <<ParseToken(res.key).stream>>,
                              !.seen = {e \in events :
                                          e.stream_ordering <= ParseToken(res.key).stream}]
                      ELSE gen
    /\ prev' = Idle
    /\ UNCHANGED <<events, stream_cache, member_cache, hs, memo>>

\* a reader reads a room up to a position at or below the one it was given
GenRead ==
    /\ gen.returned # <<>>
    /\ \E room_id \in Rooms, from_key \in {None, TokenToStr(StreamTok(0))},
          to_id \in 0..Max2(gen.returned[1], 0) :
        LET to_key == TokenToStr(StreamTok(to_id))
        IN  ret' = [op |-> "get_room_events_stream_for_room", room_id |-> room_id,
                    from_key |-> from_key, to_key |-> to_key, limit |-> BigLimit,
                    order |-> "ASC",
                    res |-> get_room_events_stream_for_room(room_id, from_key, to_key,
                                                            BigLimit, "ASC")]
    /\ prev' = Idle
    /\ UNCHANGED <<events, stream_cache, member_cache, rest>>

GenNextStep ==
    \/ GenNext
    \/ GenCommit
    \/ GenBackfill
    \/ GenMaxId
    \/ GenRead

GenSpec == GenInit /\ [][GenNextStep]_vars

\* the rows of a room in (0, to_id] among a set of rows
FrontierRows(tbl, room_id, to_id) ==
    {e.event_id : e \in {x \in tbl : /\ x.room_id = room_id
                                      /\ ~x.outlier
                                      /\ x.stream_ordering > 0
                                      /\ x.stream_ordering <= to_id}}

ReadAtFrontier ==
    /\ ret # Idle
    /\ IsStreamForRoom(ret)
    /\ ret.from_key # None

(***************************************************************************)
(* C19 as stated: once get_room_events_max_id has returned S, no row with   *)
(* stream_ordering <= S becomes visible afterwards.                         *)
(***************************************************************************)
C19_NothingAppearsBelowFrontier ==
    gen.returned # <<>> =>
        \A e \in events : e.stream_ordering <= gen.returned[1] => e \in gen.seen

(***************************************************************************)
(* C19: once get_room_events_max_id has returned S, no writer holding an id *)
(* in 1..S is still uncommitted, no row with an id in 1..S becomes visible  *)
(* afterwards, and every later read of a room from "s0" to a position at or *)
(* below S returns exactly the rows of 1..to that were visible when S was   *)
(* returned.  Backfilled rows, whose ids are below 1, may still appear.     *)
(***************************************************************************)
C19_FrontierVisible ==
    gen.returned # <<>> =>
        /\ \A e \in gen.pending : e.stream_ordering > gen.returned[1]
        /\ \A e \in events :
            (e.stream_ordering > 0 /\ e.stream_ordering <= gen.returned[1])
                => e \in gen.seen
        /\ ReadAtFrontier =>
            {e.event_id : e \in SeqToSet(ret.res.events)} =
                FrontierRows(gen.seen, ret.room_id, ParseToken(ret.to_key).stream)

\* id 2 is still uncommitted, id 3 committed before it, S = 1 was returned
\* and a read up to S returned the row of id 1
C19_Witness ==
    /\ gen.returned = <<1>>
    /\ \E e \in gen.pending : e.stream_ordering = 2
    /\ \E e \in events : e.stream_ordering = 3
    /\ ReadAtFrontier
    /\ ret.res.events # <<>>

(***************************************************************************)
(* @cached(num_args=4) on get_recent_event_ids_for_room.  The descriptor    *)
(* keeps a bounded number of results by key and drops one when it is full;  *)
(* the write path invalidates the entries of a room when a backfilled row   *)
(* is inserted into it.                                                     *)
(***************************************************************************)
MaxEntries == 1

\* the key leaves out from_token
MemoKey_ThreeArgs(room_id, limit, end_token, from_token) ==
    <<room_id, limit, end_token>>

\* num_args=4: the key is (room_id, limit, end_token, from_token)
MemoKey(room_id, limit, end_token, from_token) ==
    <<room_id, limit, end_token, from_token>>

Entry(room_id, limit, end_token, from_token, value) ==
    [key |-> MemoKey(room_id, limit, end_token, from_token),
     room_id |-> room_id, limit |-> limit, end_token |-> end_token,
     from_token |-> from_token, value |-> value]

\* cache.get(key): the entry kept under the key of the arguments, if any
Lookup(room_id, limit, end_token, from_token) ==
    {en \in memo : en.key = MemoKey(room_id, limit, end_token, from_token)}

\* get_recent_event_ids_for_room.invalidate_many((room_id,))
Invalidated(room_id) == {en \in memo : en.room_id # room_id}

MemoInit ==
    /\ events = {}
    /\ stream_cache = [r \in Rooms |-> NoInfo]
    /\ member_cache = [u \in Users |-> NoInfo]
    /\ ret = Idle
    /\ prev = Idle
    /\ hs = HomeServer({})
    /\ gen = StreamIdGenerator(0)
    /\ memo = NoEntries

\* a message is inserted at the head of the stream
MemoInsert ==
    /\ \E room \in Rooms, depth \in 1..MaxDepth :
        Persist(Event(room, Message, NoStateKey, FALSE, CurrentToken + 1, depth))
    /\ UNCHANGED rest

\* a backfilled message is inserted and the entries of its room are dropped
MemoBackfill ==
    /\ BackfillToken = 0
    /\ \E room \in Rooms, depth \in 1..MaxDepth :
        /\ Persist(Event(room, Message, NoStateKey, FALSE, BackfillToken - 1, depth))
        /\ memo' = Invalidated(room)
    /\ UNCHANGED <<hs, gen>>

MemoCalled(room_id, limit, end_token, from_token, hit, res) ==
    [op |-> "get_recent_event_ids_for_room", room_id |-> room_id, limit |-> limit,
     end_key |-> end_token, from_key |-> from_token, hit |-> hit, res |-> res]

\* the call is answered from the cache
MemoHit ==
    /\ \E room_id \in Rooms, limit \in 1..MaxLimit, end_token \in StreamKeys,
          from_token \in {None} \cup StreamKeys :
        \E en \in Lookup(room_id, limit, end_token, from_token) :
            ret' = MemoCalled(room_id, limit, end_token, from_token, TRUE, en.value)
    /\ prev' = Idle
    /\ UNCHANGED <<events, stream_cache, member_cache, rest>>

\* the call runs the query and its result is stored under the key
MemoMiss ==
    /\ \E room_id \in Rooms, limit \in 1..MaxLimit, end_token \in StreamKeys,
          from_token \in {None} \cup StreamKeys :
        /\ Lookup(room_id, limit, end_token, from_token) = {}
        /\ LET res == get_recent_event_ids_for_room(room_id, limit, end_token,
                                                    from_token)
               en == Entry(room_id, limit, end_token, from_token, res)
           IN  /\ ret' = MemoCalled(room_id, limit, end_token, from_token, FALSE, res)
               /\ \E kept \in SUBSET memo :
                    /\ Cardinality(kept) = Min2(Cardinality(memo), MaxEntries - 1)
                    /\ memo' = kept \cup {en}
    /\ prev' = Idle
    /\ UNCHANGED <<events, stream_cache, member_cache, hs, gen>>

MemoNext ==
    \/ MemoInsert
    \/ MemoBackfill
    \/ MemoHit
    \/ MemoMiss

MemoSpec == MemoInit /\ [][MemoNext]_vars

IsMemoCall(r) == r # Idle /\ r.op = "get_recent_event_ids_for_room"

(***************************************************************************)
(* C20: after any sequence of inserts and backfill inserts, a call of the   *)
(* memoized get_recent_event_ids_for_room returns the rows and tokens that  *)
(* an uncached execution of the query returns at that moment, and so does   *)
(* every result the cache holds.                                            *)
(***************************************************************************)
C20_MemoNeverStale ==
    /\ \A en \in memo :
        en.value = get_recent_event_ids_for_room(en.room_id, en.limit,
                                                 en.end_token, en.from_token)
    /\ IsMemoCall(ret) =>
        ret.res = get_recent_event_ids_for_room(ret.room_id, ret.limit,
                                                ret.end_key, ret.from_key)

\* a call answered from the cache returns a backfilled row next to a row
\* inserted before it
C20_Witness ==
    /\ IsMemoCall(ret)
    /\ ret.hit
    /\ \E i, j \in 1..Len(ret.res.rows) :
        /\ ret.res.rows[i].stream_ordering < 0
        /\ ret.res.rows[j].stream_ordering > 0

(***************************************************************************)
(* C21: every event of a chunk the store annotates carries the cursors of   *)
(* its own row: the stream part of after is the event's stream_ordering and *)
(* the stream part of before is one less.  get_appservice_room_stream zips  *)
(* the events that passed the interest filter with the unfiltered rows.     *)
(***************************************************************************)
C21_CursorsFromOwnRow ==
    (ret # Idle /\ IsOk(ret)) =>
        \A chunk \in AnnotatedChunks(ret) :
            \A i \in 1..Len(chunk) :
                /\ chunk[i].after # None
                /\ ParseToken(chunk[i].after).stream = chunk[i].stream_ordering
                /\ ParseToken(chunk[i].before).stream = chunk[i].stream_ordering - 1

\* a backward pagination from the start token of a recent-events call
RecentChain ==
    /\ prev # Idle
    /\ IsRecent(prev)
    /\ IsPaginate(ret)

\* the non-outlier events of the room before e in composite order
EarlierInRoom(e) ==
    {x \in events : /\ x.room_id = e.room_id
                    /\ ~x.outlier
                    /\ CompositeLess(x, e)}

(***************************************************************************)
(* C22: get_recent_events_for_room returns its chunk in ascending composite *)
(* order with the tokens (start, end): end is the end_token given, start is *)
(* "t{topological_ordering}-{stream_ordering - 1}" of the first row, or end *)
(* when the chunk is empty.  Paginating backwards from start returns no     *)
(* event of the chunk and begins with the event just before the chunk's     *)
(* first event in the composite order of the room.                          *)
(***************************************************************************)
C22_RecentEventsTokens ==
    /\ (ret # Idle /\ IsRecent(ret)) =>
        LET chunk == ret.res.events
        IN  /\ \A i, j \in 1..Len(chunk) : i < j => CompositeLess(chunk[i], chunk[j])
            /\ ret.res.key[2] = ret.end_key
            /\ ret.res.key[1] =
                IF chunk = <<>> THEN ret.end_key
                ELSE <<"t">> \o IntToStr(chunk[1].topological_ordering) \o <<"-">>
                        \o IntToStr(chunk[1].stream_ordering - 1)
    /\ (RecentChain /\ prev.res.events # <<>>) =>
        LET chunk == prev.res.events
            page == ret.res.events
        IN  /\ \A i \in 1..Len(chunk), j \in 1..Len(page) :
                chunk[i].event_id # page[j].event_id
            /\ EarlierInRoom(chunk[1]) # {} =>
                /\ page # <<>>
                /\ \A x \in EarlierInRoom(chunk[1]) :
                    x.event_id = page[1].event_id \/ CompositeLess(x, page[1])

\* the event before the chunk arrived after the chunk's first event
C22_Witness ==
    /\ RecentChain
    /\ prev.res.events # <<>>
    /\ ret.res.events # <<>>
    /\ ret.res.events[1].stream_ordering > prev.res.events[1].stream_ordering

(***************************************************************************)
(* C23: when a per-room query of a batch fails, the call fails with that    *)
(* first error, no later batch is started, and no other query of the batch  *)
(* is left in flight.                                                       *)
(***************************************************************************)
C23_FirstErrorCancelsTheBatch ==
    (ret # Idle /\ ret.pc = "failed") =>
        /\ ret.error # None
        /\ ret.error[1] \in SeqToSet(Slice(ret.room_ids, ret.i))
        /\ ret.results = {ret.room_ids[j] : j \in 1..(ret.i - 1)}
        /\ ret.in_flight = 0

\* a backward pagination from the start token of a get_events_around call
AroundChain ==
    /\ prev # Idle
    /\ IsAround(prev)
    /\ IsPaginate(ret)

(***************************************************************************)
(* C24: the start token of get_events_around is the position before the     *)
(* earliest event of events_before: a backward pagination from it returns   *)
(* no event of events_before.                                               *)
(***************************************************************************)
C24_StartBeforeTheWindow ==
    AroundChain =>
        \A i \in 1..Len(prev.res.events_before), j \in 1..Len(ret.res.events) :
            prev.res.events_before[i].event_id # ret.res.events[j].event_id

(***************************************************************************)
(* C25: whenever no get_X call is in progress _building is empty, also      *)
(* after a builder has raised, and the cyclic-dependency error is reported  *)
(* only for a dependency whose builder is running.                          *)
(***************************************************************************)
C25_NoMarkLeftBehind ==
    /\ (hs.stack = <<>> /\ hs.exc = NoError) => hs.building = {}
    /\ (hs.last # NoCall /\ hs.last.outcome = "cyclic") => hs.last.during

(***************************************************************************)
(* An application service follows the stream: it calls                      *)
(* get_appservice_room_stream from the token the last call returned until   *)
(* that token is to_key.  Nothing is inserted meanwhile.  A position that   *)
(* no row holds is one whose writer never committed.  ret holds the last    *)
(* call, the from_key the chain began with, the ids returned so far and the *)
(* number of calls.                                                         *)
(***************************************************************************)
MaxPosition == 6
ChainKeys == {TokenToStr(StreamTok(n)) : n \in 0..MaxPosition}

\* rooms A and B with the positions 2 and 5 left empty
GappedRooms ==
    { Event("A", Message, NoStateKey, FALSE, 1, 1),
      Event("B", Member, UserU, FALSE, 3, 1),
      Event("B", Message, NoStateKey, FALSE, 4, 2) }

ChainInit ==
    /\ events \in InitialTables \cup {GappedRooms}
    /\ stream_cache = [r \in Rooms |-> LatestChange(RoomRows(events, r))]
    /\ member_cache =
         [u \in Users |->
            LatestChange({e \in events : e.type = Member /\ e.state_key = u})]
    /\ ret = Idle
    /\ prev = Idle
    /\ hs = HomeServer({})
    /\ gen = StreamIdGenerator(CurrentToken)
    /\ memo = NoEntries

ChainCall(service, first, from_key, to_key, limit, got, calls) ==
    LET res == get_appservice_room_stream(service, from_key, to_key, limit)
    IN  [op |-> "get_appservice_room_stream", service |-> service,
         first |-> first, from_key |-> from_key, to_key |-> to_key,
         limit |-> limit, res |-> res,
         got |-> got \o IdSeq(res.events), calls |-> calls + 1]

ChainFrame == UNCHANGED <<events, stream_cache, member_cache, prev, rest>>

\* the first call
ChainStart ==
    /\ ret = Idle
    /\ \E service \in Services, from_key \in ChainKeys, to_key \in ChainKeys,
          limit \in {0, 1} :
        ret' = ChainCall(service, from_key, from_key, to_key, limit, <<>>, 0)
    /\ ChainFrame

\* the returned token is not to_key yet: the next call starts from it
ChainStep ==
    /\ ret # Idle
    /\ ret.res.key # ret.to_key
    /\ ret' = ChainCall(ret.service, ret.first, ret.res.key, ret.to_key, ret.limit,
                        ret.got, ret.calls)
    /\ ChainFrame

\* the returned token is to_key
ChainEnd ==
    /\ ret # Idle
    /\ ret.res.key = ret.to_key
    /\ ret' = Idle
    /\ ChainFrame

ChainNext ==
    \/ ChainStart
    \/ ChainStep
    \/ ChainEnd

ChainSpec == ChainInit /\ [][ChainNext]_vars

\* the events of (first, to] the service is interested in
InterestingInWindow(r) ==
    {e \in events : /\ e.stream_ordering > ParseToken(r.first).stream
                    /\ e.stream_ordering <= ParseToken(r.to_key).stream
                    /\ app_service_interested(r.service, e)}

=============================================================================
